---- MODULE Spec2Model ----
(***************************************************************************)
(* A model of lx (chebread/lx): the driver that instruments marker         *)
(* functions, runs the program under capture, restores the sources, merges *)
(* static targets with the captured traces and splices synthesized bodies. *)
(*                                                                         *)
(* The module holds several specifications over one set of variables; each *)
(* specification moves its own group of variables and leaves the others    *)
(* at their initial value:                                                 *)
(*   SpecInstr   the instrumenter as a function on a parsed file           *)
(*   Spec        the driver's life cycle (cmd/main.go main)                *)
(*   SpecMerge   scanAndMerge over the records the children deliver        *)
(*   SpecPrompt  a prompt's way from the marker call to the merged target  *)
(*   SpecScan    the stdout scanner of executeSinglePackage                *)
(*   SpecEnv     the environment handed to the child                       *)
(*   SpecRun     runAndCapture's loop over the entry points                *)
(*   SpecSynth   the synthesis workers, their semaphore and file locks     *)
(*   SpecSynthLive  the same, every runnable worker scheduled in the end   *)
(*   SpecSplice  one splice of a generated body into the bytes of a file   *)
(*   SpecProbe   the probes of lx.go called by concurrent goroutines       *)
(*   SpecComment sanitizeComment applied to a prompt                       *)
(*   SpecClean   cleanAICode applied to a reply of the LLM                 *)
(***************************************************************************)
EXTENDS Integers, Sequences, FiniteSets, TLC

VARIABLES
    \* ---- SpecInstr
    iFile,      \* the parsed file the instrumenter works on
    iPrev,      \* the file as it was before the most recent pass
    iPass,      \* number of instrumentation passes applied so far
    \* ---- Spec (the driver)
    pc,         \* position of main
    fatal,      \* the start-up error main ended with: "none", "config", "llm"
    disk,       \* path -> [mode, data]: the source tree on disk
    orig,       \* the tree as it was when the driver started
    backups,    \* main's backups map: path -> fileBackup
    walk,       \* next file of injectSpyCode's walk
    wrote,      \* the paths injectSpyCode has written instrumented bytes to
    injErrs,    \* <<path, kind>> of every per-file error injectSpyCode met
    hpc,        \* position of the goroutine of setupSafeExit
    hseen,      \* paths that goroutine's range over backups has visited
    hcur,       \* the entry that goroutine is about to write
    sigAt,      \* what was true when a signal was delivered
    exitCode,   \* exit status of the driver, -1 while it runs
    runErr,     \* error returned by runAndCapture
    traces,     \* traces returned by runAndCapture
    called,     \* the calls the captured program made
    targets,    \* targets returned by scanAndMerge
    tix,        \* next target handed to processSingleTarget
    preSynth,   \* the tree scanAndMerge read
    spliced,    \* the paths applyCodeToFile has written
    \* ---- SpecMerge
    mpc,        \* "capture" while children run, "merged" after scanAndMerge
    mTree,      \* the source tree scanProjectForLx walks
    allTraces,  \* runAndCapture's allTraces
    mTargets,   \* the targets scanAndMerge returned
    mCalls,     \* the calls of marker functions the child ran, in order
    mSynth,     \* per target processed: the prompt sent and the comment stamped
    \* ---- SpecScan
    sToken,     \* the token executeSinglePackage drew for the child
    sLine,      \* the stdout line the scanner read last
    sTraces,    \* executeSinglePackage's traces
    sRead,      \* number of lines read so far
    \* ---- SpecEnv
    environ,    \* the driver's own environment: name -> value, or unset
    cmdEnv,     \* cmd.Env of the child started last
    envToken,   \* that child's token
    started,    \* number of children started so far
    \* ---- SpecRun
    rpc,        \* position of runAndCapture
    entryPoints,\* number of directories findMainPackages returned
    dir,        \* the loop variable of runAndCapture: the next entry point
    deadline,   \* TRUE once the context of line 371 has expired
    pipe,       \* the lines the running child has written and the scanner
                \* has not read yet
    emitted,    \* directory -> the trace records its child has printed, in order
    scanErr,    \* the scanner of the running child stopped at a line longer
                \* than its buffer may grow
    childTraces,\* executeSinglePackage's traces for the running child
    runTraces,  \* runAndCapture's allTraces
    executionErrors, \* <<directory, error>> of every failed entry point
    attempted,  \* the directories executeSinglePackage was called for
    received,   \* directory -> what executeSinglePackage returned for it
    result,     \* what runAndCapture returned: [traces, err]
    \* ---- SpecSynth
    synTargets, \* the targets main starts a worker for
    synDisk,    \* the source tree the workers read and write
    synBase,    \* that tree as scanAndMerge left it
    wpc,        \* worker -> its position
    semaphore,  \* number of slots of main's semaphore that are taken
    fileLocks,  \* path -> the worker holding that file's mutex, or 0
    generated,  \* worker -> what llm.Generate returned to it
    outcome,    \* worker -> how its processSingleTarget ended
    \* ---- SpecSplice
    spSrc,      \* the bytes of the target file on disk
    spBefore,   \* those bytes before the attempt
    spIn,       \* what the second parse and the system calls gave the attempt
    spDone,     \* TRUE once the attempt is over
    spOk,       \* what applyCodeToFile returned
    \* ---- SpecProbe
    probeEnv,   \* the environment of the captured program: name -> value
    gpc,        \* goroutine -> its position in the probe it calls
    gCall,      \* goroutine -> the probe it called and the value it passed
    gRet,       \* goroutine -> the value the probe returned
    traceMu,    \* the goroutine that holds lx.traceMu, or 0
    stdout,     \* the pieces written to the program's stdout, each with the
                \* goroutine that wrote it
    \* ---- SpecComment, SpecClean
    tIn,        \* the string handed to the function, as its pieces
    tOut,       \* the string the function returned
    tDone       \* the function has returned

instrVars == <<iFile, iPrev, iPass>>

driverVars == <<pc, fatal, injErrs, disk, orig, backups, walk, wrote, hpc, hseen, hcur, sigAt,
                exitCode, runErr, traces, called, targets, tix, preSynth, spliced>>

mergeVars == <<mpc, mTree, allTraces, mTargets, mCalls, mSynth>>

scanVars == <<sToken, sLine, sTraces, sRead>>

envVars == <<environ, cmdEnv, envToken, started>>

runVars == <<rpc, entryPoints, dir, deadline, pipe, emitted, scanErr, childTraces, runTraces,
             executionErrors, attempted, received, result>>

synVars == <<synTargets, synDisk, synBase, wpc, semaphore, fileLocks,
             generated, outcome>>

spliceVars == <<spSrc, spBefore, spIn, spDone, spOk>>

probeVars == <<probeEnv, gpc, gCall, gRet, traceMu, stdout>>

textVars == <<tIn, tOut, tDone>>

vars == <<instrVars, driverVars, mergeVars, scanVars, envVars, runVars, synVars,
          spliceVars, probeVars, textVars>>

\* What a step of each specification leaves alone.
notInstr  == <<driverVars, mergeVars, scanVars, envVars, runVars, synVars,
               spliceVars, probeVars, textVars>>
notDriver == <<instrVars, mergeVars, scanVars, envVars, runVars, synVars,
               spliceVars, probeVars, textVars>>
notMerge  == <<instrVars, driverVars, scanVars, envVars, runVars, synVars,
               spliceVars, probeVars, textVars>>
notScan   == <<instrVars, driverVars, mergeVars, envVars, runVars, synVars,
               spliceVars, probeVars, textVars>>
notEnv    == <<instrVars, driverVars, mergeVars, scanVars, runVars, synVars,
               spliceVars, probeVars, textVars>>
notSynth  == <<instrVars, driverVars, mergeVars, scanVars, envVars, runVars,
               spliceVars, probeVars, textVars>>
notSplice == <<instrVars, driverVars, mergeVars, scanVars, envVars, runVars,
               synVars, probeVars, textVars>>
notRun    == <<instrVars, driverVars, mergeVars, scanVars, envVars, synVars,
               spliceVars, probeVars, textVars>>
notProbe  == <<instrVars, driverVars, mergeVars, scanVars, envVars, runVars,
               synVars, spliceVars, textVars>>
notText   == <<instrVars, driverVars, mergeVars, scanVars, envVars, runVars,
               synVars, spliceVars, probeVars>>

(***************************************************************************)
(* Bounds of the model.                                                    *)
(***************************************************************************)
MaxNames   == 2     \* names in one result field: 0 (unnamed) .. MaxNames
MaxFields  == 2     \* result fields of a function
MaxExprs   == 2     \* expressions carried by one return statement
MaxReturns == 1     \* return statements in a generated body
MaxPasses  == 2     \* instrumentation passes over one file
NumFiles   == 2     \* source files under the driver's root
MaxTraces  == 2     \* trace records the children deliver
TokLen     == 2     \* digits of a trace token
MaxLines   == 2     \* stdout lines the scanner reads from one child
MaxChildren == 2    \* entry points runAndCapture starts a child for
NumEntries == 2     \* directories that hold a package main
MaxSrc     == 3     \* bytes of a file handed to applyCodeToFile
MaxCalls   == 2     \* calls of marker functions the captured program makes
NumProbes  == 2     \* goroutines of the captured program that call a probe
MaxOther   == 1     \* writes to stdout the captured program makes itself
MaxPrompt  == 4     \* characters of a prompt handed to sanitizeComment
MaxReply   == 4     \* pieces of a reply handed to cleanAICode

SeqsUpTo(S, n) == UNION {[1..k -> S] : k \in 0..n}

(***************************************************************************)
(* Source files as the go/ast tree the tool sees.                          *)
(*                                                                         *)
(* An expression is a base expression e under a stack w of lx.Spy calls,   *)
(* outermost first.  A wrapper of form "index" is a call whose Fun is the  *)
(* IndexExpr lx.Spy[typ]; a wrapper of form "sel" is a call whose Fun is   *)
(* the bare SelectorExpr lx.Spy (type argument inferred).                  *)
(***************************************************************************)
plainExpr(e) == [w |-> <<>>, e |-> e]

selSpyExpr(name, e) ==
    [w |-> <<[form |-> "sel", typ |-> "", name |-> name]>>, e |-> e]

\* A statement: kind is "gen" (the marker call lx.Gen(arg)), "return",
\* "defer" (defer lx.SpyVoid(arg)) or "synth" (a synthesized body).
\* inlit says the statement sits inside a function literal of the body that
\* the body calls where it stands: func() { ... }().
genStmt(arg, lit) ==
    [kind |-> "gen", results |-> <<>>, inlit |-> FALSE, arg |-> arg, lit |-> lit]

\* func() { lx.Gen(arg) }()
litGenStmt(arg, lit) == [genStmt(arg, lit) EXCEPT !.inlit = TRUE]

retStmt(results) ==
    [kind |-> "return", results |-> results, inlit |-> FALSE, arg |-> "", lit |-> FALSE]

\* func() T { return results }()
litRetStmt(results) == [retStmt(results) EXCEPT !.inlit = TRUE]

funcDecl(name, recv, results, body) ==
    [name |-> name, recv |-> recv, hasBody |-> TRUE, results |-> results, body |-> body]

\* A file: ok says it parses, canon says its bytes are what format.Node
\* prints for its tree (FALSE: the author's own layout).
goFile(canon, decls) == [ok |-> TRUE, canon |-> canon, decls |-> decls]

(***************************************************************************)
(* cmd/main.go isSpyCall, hasLxGenCall                                     *)
(***************************************************************************)
isSpyCall(expr) ==
    /\ Len(expr.w) > 0
    /\ expr.w[1].form = "sel"

hasLxGenCall(body) == \E k \in 1..Len(body) : body[k].kind = "gen"

(***************************************************************************)
(* cmd/main.go injectSpyCode, the walk of one FuncDecl (lines 229-312).    *)
(***************************************************************************)
RECURSIVE returnTypesUngrouped(_)
returnTypesUngrouped(fields) ==
    IF fields = <<>> THEN <<>>
    ELSE <<Head(fields).typ>> \o returnTypesUngrouped(Tail(fields))

RECURSIVE returnTypes(_)
returnTypes(fields) ==
    IF fields = <<>> THEN <<>>
    ELSE LET field == Head(fields)
             count == IF field.names = 0 THEN 1 ELSE field.names
         IN  [i \in 1..count |-> field.typ] \o returnTypes(Tail(fields))

spyCall(typ, name, expr) ==
    [w |-> <<[form |-> "index", typ |-> typ, name |-> name]>> \o expr.w,
     e |-> expr.e]

deferStmt(name) ==
    [kind |-> "defer", results |-> <<>>, inlit |-> FALSE, arg |-> name, lit |-> TRUE]

wrapReturn(ret, types, name) ==
    [ret EXCEPT !.results =
        [i \in 1..Len(ret.results) |->
            IF i > Len(types) \/ isSpyCall(ret.results[i])
            THEN ret.results[i]
            ELSE spyCall(types[i], name, ret.results[i])]]

\* TRUE iff the walk of fn sets modified.
fnModified(fn) ==
    /\ fn.hasBody
    /\ hasLxGenCall(fn.body)
    /\ LET types == returnTypes(fn.results)
       IN  \/ types = <<>>
           \/ \E k \in 1..Len(fn.body) :
                /\ fn.body[k].kind = "return"
                /\ \E i \in 1..Len(fn.body[k].results) :
                     i <= Len(types) /\ ~isSpyCall(fn.body[k].results[i])

instrumentFn(fn) ==
    IF ~fn.hasBody \/ ~hasLxGenCall(fn.body) THEN fn
    ELSE LET types == returnTypes(fn.results)
         IN  IF types = <<>>
             THEN [fn EXCEPT !.body = <<deferStmt(fn.name)>> \o fn.body]
             ELSE [fn EXCEPT !.body =
                     [k \in 1..Len(fn.body) |->
                        IF fn.body[k].kind = "return"
                        THEN wrapReturn(fn.body[k], types, fn.name)
                        ELSE fn.body[k]]]

\* The tree after the walk of every declaration, and whether it was modified.
fileModified(file) == \E d \in 1..Len(file.decls) : fnModified(file.decls[d])

\* format.Node of the rewritten tree: the bytes written are the printer's.
instrumentedFile(file) ==
    [file EXCEPT !.canon = TRUE,
                 !.decls = [d \in 1..Len(file.decls) |-> instrumentFn(file.decls[d])]]

(***************************************************************************)
(* SpecInstr: the instrumenter applied, pass after pass, to one file that  *)
(* declares one function F.                                                *)
(***************************************************************************)
FieldType(k) == IF k = 1 THEN "int" ELSE IF k = 2 THEN "error" ELSE "string"

ResultLists ==
    {[k \in 1..Len(ns) |-> [names |-> ns[k], typ |-> FieldType(k)]] :
        ns \in SeqsUpTo(0..MaxNames, MaxFields)}

ExprSamples == {plainExpr("x"), selSpyExpr("F", "x")}

ReturnStmts == {retStmt(rs) : rs \in SeqsUpTo(ExprSamples, MaxExprs)}

\* Nothing, or a function literal that returns a string and is called where
\* it stands: func() string { return s }().
LitReturns == {<<>>, <<litRetStmt(<<plainExpr("s")>>)>>}

InstrDecls ==
    {funcDecl("F", "", res, marker \o lits \o rets) :
        res \in ResultLists,
        marker \in {<<>>, <<genStmt("p", TRUE)>>},
        lits \in LitReturns,
        rets \in SeqsUpTo(ReturnStmts, MaxReturns)}

InstrInit ==
    /\ iFile \in {goFile(FALSE, <<fn>>) : fn \in InstrDecls}
    /\ iPrev = iFile
    /\ iPass = 0

InstrumentPass ==
    /\ iPass < MaxPasses
    /\ iPrev' = iFile
    /\ iFile' = IF fileModified(iFile) THEN instrumentedFile(iFile) ELSE iFile
    /\ iPass' = iPass + 1
    /\ UNCHANGED notInstr

InstrNext == InstrumentPass

(***************************************************************************)
(* Claims about the instrumenter (SpecInstr).                              *)
(***************************************************************************)
FieldWidth(field) == IF field.names = 0 THEN 1 ELSE field.names

RECURSIVE WidthUpTo(_, _)
WidthUpTo(fields, k) ==
    IF k = 0 THEN 0 ELSE WidthUpTo(fields, k - 1) + FieldWidth(fields[k])

DeclaredN(fn) == WidthUpTo(fn.results, Len(fn.results))

\* The declared result type at position i (1-based), each name of a grouped
\* field counted separately.
DeclaredTypeAt(fn, i) ==
    LET k == CHOOSE j \in 1..Len(fn.results) :
                 WidthUpTo(fn.results, j - 1) < i /\ i <= WidthUpTo(fn.results, j)
    IN  fn.results[k].typ

IsMarkerFn(fn) == fn.hasBody /\ \E k \in 1..Len(fn.body) : fn.body[k].kind = "gen"

EmittedSpy(typ, name, expr) ==
    [w |-> <<[form |-> "index", typ |-> typ, name |-> name]>> \o expr.w, e |-> expr.e]

IsEmittedSpy(expr) == Len(expr.w) > 0 /\ expr.w[1].form = "index"

IsSelectorSpy(expr) == Len(expr.w) > 0 /\ expr.w[1].form = "sel"

\* The return statements of marker functions with declared results that
\* carry exactly N expressions, as <<declaration, statement>> index pairs;
\* the return statements of function literals are not among them.
FullReturns(file) ==
    {dk \in (1..Len(file.decls)) \X (1..(MaxReturns + 3)) :
        LET fn == file.decls[dk[1]]
        IN  /\ IsMarkerFn(fn)
            /\ DeclaredN(fn) >= 1
            /\ dk[2] <= Len(fn.body)
            /\ fn.body[dk[2]].kind = "return"
            /\ ~fn.body[dk[2]].inlit
            /\ Len(fn.body[dk[2]].results) = DeclaredN(fn)}

\* C7 (as claimed): a pass over a file leaves every return expression that
\* is already wrapped by the call the instrumenter emits, lx.Spy[T]("name", e),
\* untouched.
C7_RewrapLeavesEmittedSpyAlone ==
    iPass >= 1 =>
        \A d \in 1..Len(iPrev.decls) : \A k \in 1..Len(iPrev.decls[d].body) :
            \A i \in 1..Len(iPrev.decls[d].body[k].results) :
                IsEmittedSpy(iPrev.decls[d].body[k].results[i]) =>
                    iFile.decls[d].body[k].results[i] = iPrev.decls[d].body[k].results[i]

\* C8 (as claimed): after a pass, in every return statement of a marker
\* function that carries N expressions, position i holds
\* lx.Spy[T_i]("funcName", e_i) with T_i the declared type at position i.
C8_EveryResultWrapped ==
    iPass >= 1 =>
        \A dk \in FullReturns(iPrev) :
            LET fn  == iPrev.decls[dk[1]]
                old == fn.body[dk[2]].results
                new == iFile.decls[dk[1]].body[dk[2]].results
            IN  \A i \in 1..Len(old) :
                    new[i] = EmittedSpy(DeclaredTypeAt(fn, i), fn.name, old[i])

\* C8 (amended): the same for every expression that is not already a call
\* of the bare selector lx.Spy; such a call is left as it is.
C8_EveryUnwrappedResultWrapped ==
    iPass >= 1 =>
        \A dk \in FullReturns(iPrev) :
            LET fn  == iPrev.decls[dk[1]]
                old == fn.body[dk[2]].results
                new == iFile.decls[dk[1]].body[dk[2]].results
            IN  \A i \in 1..Len(old) :
                    IF IsSelectorSpy(old[i])
                    THEN new[i] = old[i]
                    ELSE new[i] = EmittedSpy(DeclaredTypeAt(fn, i), fn.name, old[i])

\* A first pass over F with the grouped result field (a, b int) and a
\* return of two bare expressions, both now wrapped with int.
C8_Witness ==
    /\ iPass = 1
    /\ FullReturns(iPrev) # {}
    /\ \E dk \in FullReturns(iPrev) :
        LET fn == iPrev.decls[dk[1]]
        IN  /\ Len(fn.results) = 1 /\ fn.results[1].names = 2
            /\ \A i \in 1..2 : fn.body[dk[2]].results[i].w = <<>>
            /\ \A i \in 1..2 :
                 iFile.decls[dk[1]].body[dk[2]].results[i].w[1].typ = fn.results[1].typ

\* C35 (as claimed): a pass leaves the return statement of a function
\* literal inside a function body as it was.
C35_LiteralReturnsUntouched ==
    iPass >= 1 =>
        \A d \in 1..Len(iPrev.decls) : \A k \in 1..Len(iPrev.decls[d].body) :
            (iPrev.decls[d].body[k].kind = "return" /\ iPrev.decls[d].body[k].inlit)
                => iFile.decls[d].body[k] = iPrev.decls[d].body[k]

(***************************************************************************)
(* Trace records.  A JSON value is kept as its kind t and, for a string,   *)
(* its content s; "absent" is a record without a value field (an empty     *)
(* json.RawMessage).  A Go function name is the sequence of its            *)
(* dot-separated parts.                                                    *)
(***************************************************************************)
jsonStr(s) == [t |-> "str", s |-> s]
jsonNull   == [t |-> "null", s |-> ""]
jsonNum    == [t |-> "num", s |-> "42"]
jsonAbsent == [t |-> "absent", s |-> ""]

\* The JSON text of a string.
quoted(s) ==
    CASE s = ""    -> "\"\""
      [] s = "p"   -> "\"p\""
      [] s = "q"   -> "\"q\""
      [] s = "dyn" -> "\"dyn\""
      [] s = "msg" -> "\"msg\""
      [] OTHER     -> "\"...\""

\* string(t.Value), and json.MarshalIndent of a decoded scalar.
rawText(v) ==
    CASE v.t = "str"  -> quoted(v.s)
      [] v.t = "null" -> "null"
      [] v.t = "num"  -> v.s
      [] OTHER        -> ""

traceData(kind, function, value, file) ==
    [kind |-> kind, function |-> function, value |-> value, file |-> file]

\* cmd/main.go normalizeFuncName: the part after the last dot.
normalizeFuncName(full) == full[Len(full)]

RECURSIVE Concat(_)
Concat(ss) == IF ss = <<>> THEN <<>> ELSE Head(ss) \o Concat(Tail(ss))

(***************************************************************************)
(* lx.go Gen, Spy, SpyVoid under LX_MODE=capture: the records one call of  *)
(* the function fn of file path writes, when the call runs the statements  *)
(* before position k and leaves through statement k (a return statement,   *)
(* or Len(fn.body) + 1 for the end of the body).                           *)
(***************************************************************************)
qualifiedName(fn) ==
    <<"main">> \o (IF fn.recv = "" THEN <<>> ELSE <<fn.recv>>) \o <<fn.name>>

\* The prompt string a marker call passes at run time.
runtimePrompt(stmt) == IF stmt.lit THEN stmt.arg ELSE "dyn"

\* runtime.FuncForPC(pc).Name() of the caller of Gen: the function, or the
\* function literal inside it that makes the call.
callerName(fn, stmt) ==
    qualifiedName(fn) \o (IF stmt.inlit THEN <<"func1">> ELSE <<>>)

Gen(path, fn, stmt) ==
    traceData("INPUT", callerName(fn, stmt), jsonStr(runtimePrompt(stmt)), path)

Spy(path, funcName) == traceData("OUTPUT", <<funcName>>, jsonNum, path)

SpyVoid(path, funcName) == traceData("OUTPUT", <<funcName>>, jsonNull, path)

\* The Spy calls of one returned expression run innermost first.
spyRecords(path, expr) ==
    [j \in 1..Len(expr.w) |-> Spy(path, expr.w[Len(expr.w) + 1 - j].name)]

callRecords(path, fn, k) ==
    LET before == [j \in 1..(k - 1) |->
                      IF fn.body[j].kind = "gen"
                      THEN <<Gen(path, fn, fn.body[j])>> ELSE <<>>]
        leave  == IF k <= Len(fn.body)
                  THEN Concat([i \in 1..Len(fn.body[k].results) |->
                                  spyRecords(path, fn.body[k].results[i])])
                  ELSE <<>>
        defers == [j \in 1..(k - 1) |->
                      IF fn.body[j].kind = "defer"
                      THEN <<SpyVoid(path, fn.body[j].arg)>> ELSE <<>>]
    IN  Concat(before) \o leave \o Concat(defers)

\* The positions a call of fn can leave through.
exitPoints(fn) ==
    {k \in 1..(Len(fn.body) + 1) :
        \/ k = Len(fn.body) + 1 /\ returnTypes(fn.results) = <<>>
        \/ k <= Len(fn.body) /\ fn.body[k].kind = "return" /\ ~fn.body[k].inlit}

\* cmd/main.go executeSinglePackage, lines 463-471: a decoded record.
decodeRecord(rec) == [rec EXCEPT !.function = normalizeFuncName(rec.function)]

(***************************************************************************)
(* cmd/main.go scanProjectForLx and scanAndMerge.                          *)
(***************************************************************************)
Paths == 1..NumFiles

targetInfo(path, name, prompt) ==
    [FilePath |-> path, FuncName |-> name, Prompt |-> prompt, Output |-> ""]

\* The prompt the scanner extracts from a marker call: a string literal
\* without its quotes, else (also for the literal "") the argument printed
\* back to source; a call without arguments has arg "" and lit FALSE.
staticPrompt(stmt) ==
    IF stmt.lit /\ stmt.arg # "" THEN stmt.arg
    ELSE IF stmt.lit THEN quoted("")
    ELSE stmt.arg

scanDecl(path, fn) ==
    IF ~fn.hasBody THEN <<>>
    ELSE Concat([k \in 1..Len(fn.body) |->
            IF fn.body[k].kind = "gen" /\ staticPrompt(fn.body[k]) # ""
            THEN <<targetInfo(path, fn.name, staticPrompt(fn.body[k]))>>
            ELSE <<>>])

scanFile(path, data) ==
    IF ~data.ok THEN <<>>
    ELSE Concat([d \in 1..Len(data.decls) |-> scanDecl(path, data.decls[d])])

scanProjectForLx(dsk) ==
    Concat([p \in 1..Len(dsk) |-> scanFile(p, dsk[p].data)])

\* (mutant) the key is the function name alone.
mergeKeyByName(funcName, filePath) == <<funcName>>

\* FuncName + "\n" + FilePath, lines 610, 620 and 649.
mergeKey(funcName, filePath) == <<funcName, filePath>>

targetKey(t) == mergeKey(t.FuncName, t.FilePath)

\* index[key] = &rtCopy for every raw target in turn: the last one stays.
indexOf(rawTargets) ==
    [key \in {targetKey(rawTargets[i]) : i \in 1..Len(rawTargets)} |->
        rawTargets[CHOOSE i \in 1..Len(rawTargets) :
            /\ targetKey(rawTargets[i]) = key
            /\ \A j \in (i + 1)..Len(rawTargets) : targetKey(rawTargets[j]) # key]]

\* (mutant) an output that is already there is kept.
applyTraceFirstOutput(index, key, t) ==
    CASE t.kind = "INPUT" ->
            [index EXCEPT ![key].Prompt =
                IF t.value.t = "str" /\ t.value.s # ""
                THEN t.value.s ELSE rawText(t.value)]
      [] t.kind = "OUTPUT" /\ index[key].Output = "" ->
            [index EXCEPT ![key].Output = rawText(t.value)]
      [] OTHER -> index

\* Lines 626-644: the record t is merged into the target under key.
applyTrace(index, key, t) ==
    CASE t.kind = "INPUT" ->
            [index EXCEPT ![key].Prompt =
                IF t.value.t = "str" /\ t.value.s # ""
                THEN t.value.s ELSE rawText(t.value)]
      [] t.kind = "OUTPUT" ->
            [index EXCEPT ![key].Output = rawText(t.value)]
      [] OTHER -> index

\* (mutant) a record whose key is not in the index goes to a target of the
\* same function name in another file.
mergeTraceAnyFile(index, t) ==
    LET key    == mergeKey(t.function, t.file)
        byName == {k \in DOMAIN index : k[1] = t.function}
    IN  IF key \in DOMAIN index THEN applyTrace(index, key, t)
        ELSE IF byName = {} THEN index
        ELSE applyTrace(index, CHOOSE k \in byName : TRUE, t)

\* Lines 616-644: a record whose key is not in the index is passed over.
mergeTrace(index, t) ==
    LET key == mergeKey(t.function, t.file)
    IN  IF key \in DOMAIN index THEN applyTrace(index, key, t) ELSE index

RECURSIVE mergeTraces(_, _)
mergeTraces(index, trs) ==
    IF trs = <<>> THEN index
    ELSE mergeTraces(mergeTrace(index, Head(trs)), Tail(trs))

keepAll(t) == TRUE

keepWithOutput(t) == t.Output # ""

scanAndMerge(dsk, trs) ==
    LET rawTargets == scanProjectForLx(dsk)
        index      == mergeTraces(indexOf(rawTargets), trs)
        current    == [i \in 1..Len(rawTargets) |-> index[targetKey(rawTargets[i])]]
    IN  SelectSeq(current, keepWithOutput)

(***************************************************************************)
(* Files on disk.  A file opened for writing fails with a permission       *)
(* error when its mode has no write bit; os.WriteFile on an existing file  *)
(* replaces the bytes and leaves the mode bits as they are.                *)
(***************************************************************************)
Modes == {"0644", "0444"}

canWrite(file) == file.mode # "0444"

writeFile(dsk, path, data) ==
    IF canWrite(dsk[path]) THEN [dsk EXCEPT ![path].data = data] ELSE dsk

\* (mutant) the backup holds the bytes about to be written, not those read.
fileBackupOfRewritten(file) ==
    [Data |-> instrumentedFile(file.data), Mode |-> file.mode]

fileBackup(file) == [Data |-> file.data, Mode |-> file.mode]

\* (mutant) a failing entry ends the restore instead of being logged.
revertCodeStopsAtFailure(bk, dsk) ==
    IF \E q \in DOMAIN bk : ~canWrite(dsk[q]) THEN dsk
    ELSE [p \in DOMAIN dsk |->
            IF p \in DOMAIN bk THEN [dsk[p] EXCEPT !.data = bk[p].Data] ELSE dsk[p]]

\* (mutant) nothing is written back.
revertCodeSkipped(bk, dsk) == dsk

\* cmd/main.go revertCode: every entry written back, failures only logged.
revertCode(bk, dsk) ==
    [p \in DOMAIN dsk |->
        IF p \in DOMAIN bk /\ canWrite(dsk[p])
        THEN [dsk[p] EXCEPT !.data = bk[p].Data]
        ELSE dsk[p]]

(***************************************************************************)
(* cmd/main.go processSingleTarget and applyCodeToFile, as one step: the   *)
(* body of the first declaration named funcName is replaced by the         *)
(* synthesized body; gofmt -w then rewrites the file (fmtOk) or only warns.*)
(***************************************************************************)
synthStmt(prompt) ==
    [kind |-> "synth", results |-> <<>>, inlit |-> FALSE, arg |-> prompt, lit |-> FALSE]

findFunc(data, funcName) ==
    {d \in 1..Len(data.decls) :
        /\ data.decls[d].name = funcName
        /\ \A e \in 1..(d - 1) : data.decls[e].name # funcName}

applyCodeToFile(data, d, prompt, fmtOk) ==
    [data EXCEPT !.decls[d].body = <<synthStmt(prompt)>>,
                 !.canon = IF fmtOk THEN TRUE ELSE @]

canSplice(data, funcName) ==
    /\ data.ok
    /\ \E d \in findFunc(data, funcName) : data.decls[d].hasBody

splicedData(data, funcName, prompt, fmtOk) ==
    applyCodeToFile(data, CHOOSE d \in findFunc(data, funcName) : TRUE, prompt, fmtOk)

(***************************************************************************)
(* Spec: the driver, cmd/main.go main, with the goroutine of setupSafeExit *)
(* and the delivery of one interrupt or termination signal.                *)
(***************************************************************************)
intResult == <<[names |-> 0, typ |-> "int"]>>

\* func H() {}
fileH == goFile(FALSE, <<funcDecl("H", "", <<>>, <<>>)>>)

\* func F() int { lx.Gen("p"); return x }
fileF ==
    goFile(FALSE, <<funcDecl("F", "", intResult,
                             <<genStmt("p", TRUE), retStmt(<<plainExpr("x")>>)>>)>>)

\* func G() { lx.Gen("q") }, as gofmt prints it
fileG == goFile(TRUE, <<funcDecl("G", "", <<>>, <<genStmt("q", TRUE)>>)>>)

\* func (A) Run() int { lx.Gen("p"); return x }
\* func (B) Run() int { lx.Gen("q"); return x }
fileRun ==
    goFile(FALSE, <<funcDecl("Run", "A", intResult,
                             <<genStmt("p", TRUE), retStmt(<<plainExpr("x")>>)>>),
                    funcDecl("Run", "B", intResult,
                             <<genStmt("q", TRUE), retStmt(<<plainExpr("x")>>)>>)>>)

\* a file the parser rejects
fileBad == [ok |-> FALSE, canon |-> FALSE, decls |-> <<>>]

DriverFiles == {fileH, fileF, fileG, fileRun, fileBad}

running == exitCode = -1

exit(code) == exitCode' = code /\ pc' = "exited"

\* The calls the program can make: <<path, declaration, exit point>>.
CallSites(dsk) ==
    {c \in Paths \X (1..2) \X (1..4) :
        /\ dsk[c[1]].data.ok
        /\ c[2] <= Len(dsk[c[1]].data.decls)
        /\ dsk[c[1]].data.decls[c[2]].hasBody
        /\ c[3] \in exitPoints(dsk[c[1]].data.decls[c[2]])}

callBefore(a, b) ==
    \/ a[1] < b[1]
    \/ a[1] = b[1] /\ a[2] < b[2]
    \/ a[1] = b[1] /\ a[2] = b[2] /\ a[3] <= b[3]

RECURSIVE inOrder(_)
inOrder(S) ==
    IF S = {} THEN <<>>
    ELSE LET first == CHOOSE a \in S : \A b \in S : callBefore(a, b)
         IN  <<first>> \o inOrder(S \ {first})

\* The records the parent decodes from a child that makes the calls of S.
capturedTraces(dsk, S) ==
    LET calls == inOrder(S)
        recs  == Concat([n \in 1..Len(calls) |->
                    callRecords(calls[n][1],
                                dsk[calls[n][1]].data.decls[calls[n][2]],
                                calls[n][3])])
    IN  [n \in 1..Len(recs) |-> decodeRecord(recs[n])]

DriverInit ==
    /\ pc = "config"
    /\ fatal = "none"
    /\ disk \in [Paths -> [mode : Modes, data : DriverFiles]]
    /\ orig = disk
    /\ backups = <<>>
    /\ walk = 1
    /\ wrote = {}
    /\ injErrs = {}
    /\ hpc = "none"
    /\ hseen = {}
    /\ hcur = <<>>
    /\ sigAt = "none"
    /\ exitCode = -1
    /\ runErr = "none"
    /\ traces = <<>>
    /\ called = {}
    /\ targets = <<>>
    /\ tix = 1
    /\ preSynth = <<>>
    /\ spliced = {}

\* main, lines 108-111: loadConfig, and log.Fatalf when it fails.
LoadConfig ==
    /\ running /\ pc = "config"
    /\ \/ pc' = "llm" /\ UNCHANGED <<fatal, exitCode>>
       \/ fatal' = "config" /\ exit(1)
    /\ UNCHANGED <<notDriver, injErrs, disk, orig, backups, walk, wrote, hpc, hseen, hcur, sigAt,
                   runErr, traces, called, targets, tix, preSynth, spliced>>

\* (mutant) the error of newLLM is recorded and main goes on.
NewLLMErrorIgnored ==
    /\ running /\ pc = "llm"
    /\ \E failed \in BOOLEAN : fatal' = IF failed THEN "llm" ELSE fatal
    /\ pc' = "inject"
    /\ UNCHANGED <<notDriver, injErrs, disk, orig, backups, walk, wrote, hpc, hseen, hcur, sigAt,
                   exitCode, runErr, traces, called, targets, tix, preSynth, spliced>>

\* main, lines 113-116: newLLM, and log.Fatalf when it fails.
NewLLM ==
    /\ running /\ pc = "llm"
    /\ \/ pc' = "inject" /\ UNCHANGED <<fatal, exitCode>>
       \/ fatal' = "llm" /\ exit(1)
    /\ UNCHANGED <<notDriver, injErrs, disk, orig, backups, walk, wrote, hpc, hseen, hcur, sigAt,
                   runErr, traces, called, targets, tix, preSynth, spliced>>

\* injectSpyCode, the walk callback on a file that does not parse or holds
\* nothing to instrument: lines 215-224 and 315-317.
InjectSkip ==
    /\ running /\ pc = "inject" /\ walk <= NumFiles
    /\ ~disk[walk].data.ok \/ ~fileModified(disk[walk].data)
    /\ injErrs' = IF disk[walk].data.ok THEN injErrs
                  ELSE injErrs \cup {<<walk, "parse">>}
    /\ walk' = walk + 1
    /\ UNCHANGED <<notDriver, fatal, pc, disk, orig, backups, wrote, hpc, hseen, hcur, sigAt, exitCode,
                   runErr, traces, called, targets, tix, preSynth, spliced>>

\* lines 319-330: the backup is taken, the tree printed and written.
InjectWrite ==
    /\ running /\ pc = "inject" /\ walk <= NumFiles
    /\ disk[walk].data.ok /\ fileModified(disk[walk].data)
    /\ canWrite(disk[walk])
    /\ backups' = [p \in DOMAIN backups \cup {walk} |->
                      IF p = walk THEN fileBackup(disk[walk]) ELSE backups[p]]
    /\ disk' = writeFile(disk, walk, instrumentedFile(disk[walk].data))
    /\ wrote' = wrote \cup {walk}
    /\ walk' = walk + 1
    /\ UNCHANGED <<notDriver, fatal, injErrs, pc, orig, hpc, hseen, hcur, sigAt, exitCode,
                   runErr, traces, called, targets, tix, preSynth, spliced>>

\* lines 319-328: the backup is taken, then format.Node or os.WriteFile
\* fails and the walk ends with that error.
InjectFail ==
    /\ running /\ pc = "inject" /\ walk <= NumFiles
    /\ disk[walk].data.ok /\ fileModified(disk[walk].data)
    /\ \E kind \in {"format", "write"} :
         /\ kind = "write" => ~canWrite(disk[walk])
         /\ injErrs' = injErrs \cup {<<walk, kind>>}
    /\ backups' = [p \in DOMAIN backups \cup {walk} |->
                      IF p = walk THEN fileBackup(disk[walk]) ELSE backups[p]]
    /\ pc' = "injectFailed"
    /\ UNCHANGED <<notDriver, fatal, disk, orig, walk, wrote, hpc, hseen, hcur, sigAt, exitCode,
                   runErr, traces, called, targets, tix, preSynth, spliced>>

\* main, lines 124-128.
RevertAfterInjectError ==
    /\ running /\ pc = "injectFailed"
    /\ disk' = revertCode(backups, disk)
    /\ exit(0)
    /\ UNCHANGED <<notDriver, fatal, injErrs, orig, backups, walk, wrote, hpc, hseen, hcur, sigAt,
                   runErr, traces, called, targets, tix, preSynth, spliced>>

\* main, lines 130-137: the walk is over, the handler is installed.
SetupSafeExit ==
    /\ running /\ pc = "inject" /\ walk > NumFiles
    /\ hpc' = "armed"
    /\ pc' = "run"
    /\ UNCHANGED <<notDriver, fatal, injErrs, disk, orig, backups, walk, wrote, hseen, hcur, sigAt, exitCode,
                   runErr, traces, called, targets, tix, preSynth, spliced>>

\* main, line 140: runAndCapture returns traces, or an error.
RunAndCapture ==
    /\ running /\ pc = "run"
    /\ \/ \E S \in SUBSET CallSites(disk) :
            /\ traces' = capturedTraces(disk, S)
            /\ called' = S
            /\ runErr' = "none"
       \/ \E e \in {"noentry", "childfail", "timeout"} :
            /\ traces' = <<>>
            /\ called' = {}
            /\ runErr' = e
    /\ pc' = "restore"
    /\ UNCHANGED <<notDriver, fatal, injErrs, disk, orig, backups, walk, wrote, hpc, hseen, hcur, sigAt, exitCode,
                   targets, tix, preSynth, spliced>>

\* A panic inside runAndCapture unwinds main: the deferred function of
\* lines 132-137 runs, then the runtime ends the process with status 2.
RunPanics ==
    /\ running /\ pc = "run"
    /\ disk' = IF DOMAIN backups # {} THEN revertCode(backups, disk) ELSE disk
    /\ exit(2)
    /\ UNCHANGED <<notDriver, fatal, injErrs, orig, backups, walk, wrote, hpc, hseen, hcur, sigAt,
                   runErr, traces, called, targets, tix, preSynth, spliced>>

\* main, line 143.
RestoreSource ==
    /\ running /\ pc = "restore"
    /\ disk' = revertCode(backups, disk)
    /\ pc' = "clear"
    /\ UNCHANGED <<notDriver, fatal, injErrs, orig, backups, walk, wrote, hpc, hseen, hcur, sigAt, exitCode,
                   runErr, traces, called, targets, tix, preSynth, spliced>>

\* main, line 144.
ClearBackups ==
    /\ running /\ pc = "clear"
    /\ backups' = <<>>
    /\ pc' = "check"
    /\ UNCHANGED <<notDriver, fatal, injErrs, disk, orig, walk, wrote, hpc, hseen, hcur, sigAt, exitCode,
                   runErr, traces, called, targets, tix, preSynth, spliced>>

\* main, line 144, while the handler goroutine ranges over the same map:
\* the runtime may detect the concurrent map write and end the process.
ClearBackupsRace ==
    /\ running /\ pc = "clear"
    /\ hpc \in {"revert", "write"}
    /\ exit(2)
    /\ UNCHANGED <<notDriver, fatal, injErrs, disk, orig, backups, walk, wrote, hpc, hseen, hcur, sigAt,
                   runErr, traces, called, targets, tix, preSynth, spliced>>

\* (mutant) the error of runAndCapture is not looked at.
MergeDespiteRunError ==
    /\ running /\ pc = "check" /\ runErr # "none"
    /\ targets' = scanAndMerge(disk, traces)
    /\ preSynth' = disk
    /\ pc' = "synth"
    /\ UNCHANGED <<notDriver, fatal, injErrs, disk, orig, backups, walk, wrote, hpc, hseen, hcur, sigAt,
                   exitCode, runErr, traces, called, tix, spliced>>

\* main, lines 146-149.
StopOnRunError ==
    /\ running /\ pc = "check" /\ runErr # "none"
    /\ disk' = revertCode(backups, disk)
    /\ exit(1)
    /\ UNCHANGED <<notDriver, fatal, injErrs, orig, backups, walk, wrote, hpc, hseen, hcur, sigAt,
                   runErr, traces, called, targets, tix, preSynth, spliced>>

\* main, lines 152-156.
ScanAndMerge ==
    /\ running /\ pc = "check" /\ runErr = "none"
    /\ targets' = scanAndMerge(disk, traces)
    /\ preSynth' = disk
    /\ IF targets' = <<>> THEN exit(0) ELSE pc' = "synth" /\ exitCode' = exitCode
    /\ UNCHANGED <<notDriver, fatal, injErrs, disk, orig, backups, walk, wrote, hpc, hseen, hcur, sigAt,
                   runErr, traces, called, tix, spliced>>

\* main, lines 169-182: one worker runs processSingleTarget to its end.
ProcessTarget ==
    /\ running /\ pc = "synth" /\ tix <= Len(targets)
    /\ LET t == targets[tix]
       IN  \E llmOk \in BOOLEAN, fmtOk \in BOOLEAN :
             IF /\ llmOk
                /\ canSplice(disk[t.FilePath].data, t.FuncName)
                /\ canWrite(disk[t.FilePath])
             THEN /\ disk' = writeFile(disk, t.FilePath,
                                splicedData(disk[t.FilePath].data, t.FuncName, t.Prompt, fmtOk))
                  /\ spliced' = spliced \cup {t.FilePath}
             ELSE UNCHANGED <<disk, spliced>>
    /\ tix' = tix + 1
    /\ UNCHANGED <<notDriver, fatal, injErrs, pc, orig, backups, walk, wrote, hpc, hseen, hcur, sigAt, exitCode,
                   runErr, traces, called, targets, preSynth>>

\* main, lines 184-188: every worker is done, main returns.
AllTasksCompleted ==
    /\ running /\ pc = "synth" /\ tix > Len(targets)
    /\ exit(0)
    /\ UNCHANGED <<notDriver, fatal, injErrs, disk, orig, backups, walk, wrote, hpc, hseen, hcur, sigAt,
                   runErr, traces, called, targets, tix, preSynth, spliced>>

\* TRUE while a file holds instrumented bytes that main has not restored.
restorePending ==
    /\ wrote # {}
    /\ pc \in {"inject", "injectFailed", "run", "restore"}

\* SIGINT or SIGTERM reaches the process.  Before signal.Notify (line 192)
\* the default disposition ends the process; after it the goroutine of
\* lines 193-198 wakes up.
Signal ==
    /\ running /\ sigAt = "none"
    /\ sigAt' = IF restorePending THEN "instrumented" ELSE "other"
    /\ IF hpc = "armed"
       THEN hpc' = "revert" /\ UNCHANGED <<pc, exitCode>>
       ELSE hpc' = hpc /\ exit(130)
    /\ UNCHANGED <<notDriver, fatal, injErrs, disk, orig, backups, walk, wrote, hseen, hcur,
                   runErr, traces, called, targets, tix, preSynth, spliced>>

\* The handler's revertCode, line 337: the range reaches an entry.
HandlerLoad ==
    /\ running /\ hpc = "revert"
    /\ \E p \in DOMAIN backups \ hseen :
         /\ hcur' = <<p, backups[p].Data>>
         /\ hseen' = hseen \cup {p}
    /\ hpc' = "write"
    /\ UNCHANGED <<notDriver, fatal, injErrs, pc, disk, orig, backups, walk, wrote, sigAt, exitCode,
                   runErr, traces, called, targets, tix, preSynth, spliced>>

\* The handler's revertCode, line 338.
HandlerWrite ==
    /\ running /\ hpc = "write"
    /\ disk' = writeFile(disk, hcur[1], hcur[2])
    /\ hcur' = <<>>
    /\ hpc' = "revert"
    /\ UNCHANGED <<notDriver, fatal, injErrs, pc, orig, backups, walk, wrote, hseen, sigAt, exitCode,
                   runErr, traces, called, targets, tix, preSynth, spliced>>

\* The range is over: os.Exit(1), line 197.
HandlerExit ==
    /\ running /\ hpc = "revert"
    /\ DOMAIN backups \ hseen = {}
    /\ exit(1)
    /\ UNCHANGED <<notDriver, fatal, injErrs, disk, orig, backups, walk, wrote, hpc, hseen, hcur, sigAt,
                   runErr, traces, called, targets, tix, preSynth, spliced>>

DriverNext ==
    \/ LoadConfig \/ NewLLM
    \/ InjectSkip \/ InjectWrite \/ InjectFail \/ RevertAfterInjectError
    \/ SetupSafeExit \/ RunAndCapture \/ RunPanics
    \/ RestoreSource \/ ClearBackups \/ ClearBackupsRace
    \/ StopOnRunError \/ ScanAndMerge \/ ProcessTarget \/ AllTasksCompleted
    \/ Signal \/ HandlerLoad \/ HandlerWrite \/ HandlerExit


(***************************************************************************)
(* Claims about the driver (Spec).                                         *)
(***************************************************************************)
exited == pc = "exited"

\* A probe the instrumenter injects is in the file.
HoldsProbe(data) ==
    \E d \in 1..Len(data.decls) : \E k \in 1..Len(data.decls[d].body) :
        \/ data.decls[d].body[k].kind = "defer"
        \/ \E i \in 1..Len(data.decls[d].body[k].results) :
             data.decls[d].body[k].results[i].w # <<>>

\* C1 (as claimed): when the driver exits without a signal having been
\* delivered, every file the instrumenter modified holds its original bytes.
C1_OriginalBytesAtExit ==
    (exited /\ sigAt = "none") =>
        \A p \in wrote : disk[p].data = orig[p].data

\* C1 (amended): when the driver exits without a signal having been
\* delivered, every file the instrumenter modified holds its original bytes,
\* or (success path) the synthesizer's splices applied to its original bytes,
\* with no probe left in it.
C1_RestoredAtExit ==
    (exited /\ sigAt = "none") =>
        \A p \in wrote :
            \/ disk[p].data = orig[p].data
            \/ /\ p \in spliced
               /\ exitCode = 0
               /\ preSynth[p].data = orig[p].data
               /\ ~HoldsProbe(disk[p].data)

\* The child failed, the driver stopped with status 1, and the two files it
\* had instrumented are as the author wrote them.
C1_Witness ==
    /\ exited /\ sigAt = "none" /\ exitCode = 1
    /\ runErr = "childfail"
    /\ Cardinality(wrote) >= 2
    /\ \A p \in wrote : disk[p] = orig[p] /\ ~orig[p].data.canon

\* C2 (as claimed): a signal delivered after the instrumenter wrote its
\* first file and before restoration completed ends the driver with every
\* modified file holding its original bytes and a non-zero status.
C2_SignalRestores ==
    (exited /\ sigAt = "instrumented") =>
        /\ \A p \in wrote : disk[p].data = orig[p].data
        /\ exitCode # 0

\* C3: once revertCode has run on the table injectSpyCode returned (main
\* line 143, or line 126 after an instrumentation error), every file of the
\* table has its pre-instrument bytes and mode.
C3_RoundTrip ==
    (pc = "clear" \/ (exited /\ hpc = "none" /\ sigAt = "none")) =>
        \A p \in DOMAIN backups : disk[p] = orig[p]

\* revertCode has rewritten a file whose tree and layout the instrumenter
\* had both changed.
C3_Witness ==
    /\ pc = "clear"
    /\ \E p \in wrote \cap DOMAIN backups :
         /\ ~orig[p].data.canon
         /\ instrumentedFile(orig[p].data) # orig[p].data
         /\ disk[p] = orig[p]

\* The marker functions of the tree, as <<path, declaration>>.
MarkerDecls ==
    {pd \in Paths \X (1..2) :
        /\ orig[pd[1]].data.ok
        /\ pd[2] <= Len(orig[pd[1]].data.decls)
        /\ IsMarkerFn(orig[pd[1]].data.decls[pd[2]])}

WasCalled(pd) == \E c \in called : c[1] = pd[1] /\ c[2] = pd[2]

\* A forwarded target names the file and the short name of the declaration,
\* and the declaration is the one a worker resolves that name to.
Forwarded(pd) ==
    LET decls == orig[pd[1]].data.decls
    IN  \E i \in 1..Len(targets) :
            /\ targets[i].FilePath = pd[1]
            /\ targets[i].FuncName = decls[pd[2]].name
            /\ \A e \in 1..(pd[2] - 1) : decls[e].name # decls[pd[2]].name

Synthesized(pd) ==
    \E k \in 1..Len(disk[pd[1]].data.decls[pd[2]].body) :
        disk[pd[1]].data.decls[pd[2]].body[k].kind = "synth"

C13_CaptureErrorStops ==
    runErr # "none" =>
        /\ pc # "synth" /\ targets = <<>> /\ tix = 1 /\ spliced = {}
        /\ exited => /\ exitCode # 0
                     /\ \A p \in wrote : disk[p] = orig[p]

\* The capture timed out after two files had been instrumented; main
\* restored them and stopped with status 1.
C13_Witness ==
    /\ exited /\ runErr = "timeout" /\ exitCode = 1 /\ sigAt = "none"
    /\ Cardinality(wrote) >= 2
    /\ disk = orig

\* C14: a run that ends with a configuration error or an LLM initialisation
\* error never wrote, backed up or changed a source file.
C14_FatalBeforeAnyWrite ==
    (exited /\ fatal # "none") =>
        /\ exitCode # 0
        /\ wrote = {} /\ backups = <<>> /\ walk = 1
        /\ disk = orig

\* newLLM failed in a tree that holds a writable file the instrumenter
\* would have rewritten.
C14_Witness ==
    /\ exited /\ fatal = "llm"
    /\ \E p \in Paths :
         /\ orig[p].data.ok /\ fileModified(orig[p].data) /\ canWrite(orig[p])
         /\ disk[p] = orig[p]

\* The walk is over and has rewritten every file the instrumenter rewrites.
WholeTreeInstrumented ==
    /\ walk > NumFiles
    /\ \A p \in Paths :
         (orig[p].data.ok /\ fileModified(orig[p].data) /\ canWrite(orig[p]))
            => p \in wrote

\* C15: runAndCapture returns (a child has run) only from a tree whose
\* instrumentation is complete; the step of the target scanner and every
\* step of a synthesis worker read a tree in which no file holds a probe,
\* and the scanner reads every instrumented file with its original bytes.
C15_StagesInOrder ==
    [][/\ (pc = "run" /\ pc' = "restore") => WholeTreeInstrumented
       /\ (preSynth' # preSynth \/ tix' # tix) =>
             \A p \in Paths : ~HoldsProbe(disk[p].data)
       /\ (preSynth' # preSynth) =>
             \A p \in wrote : disk[p].data = orig[p].data]_vars

\* A worker has spliced a file that the instrumenter had rewritten and
\* main had restored.
C15_Witness ==
    /\ pc = "synth" /\ tix > 1
    /\ spliced \cap wrote # {}
    /\ \A p \in wrote : preSynth[p].data = orig[p].data

\* C27 (as claimed): while injectSpyCode runs and when it has returned an
\* error, the keys of the backup table are the paths whose file the
\* instrumenter has rewritten on disk, and a file without a marker function
\* is neither rewritten nor backed up.
C27_BackupIffModified ==
    pc \in {"inject", "injectFailed"} =>
        /\ DOMAIN backups = wrote
        /\ \A p \in Paths :
              ~(orig[p].data.ok /\ \E d \in 1..Len(orig[p].data.decls) :
                                      IsMarkerFn(orig[p].data.decls[d]))
                 => p \notin wrote /\ p \notin DOMAIN backups

\* C28 (as claimed): the walk goes past every file that met a parse or a
\* format error, and injectSpyCode returns an error for a failed write only.
C28_PerFileErrorSkipsFile ==
    /\ \A e \in injErrs : e[2] \in {"parse", "format"} => walk > e[1]
    /\ pc = "injectFailed" => <<walk, "write">> \in injErrs

\* main is past clear(backups), line 144.
backupsCleared == pc \in {"check", "synth"}

\* C26 (as claimed): once main has cleared the backup table, the goroutine
\* of the signal handler writes no file, and a file that holds a synthesized
\* body is never given its original bytes again.
C26_NoRestoreAfterClear ==
    [][/\ backupsCleared => ~(hpc = "write" /\ hpc' = "revert")
       /\ \A p \in spliced :
             disk[p].data # orig[p].data => disk'[p].data # orig[p].data]_vars

(***************************************************************************)
(* SpecMerge: runAndCapture collects the records its children deliver,     *)
(* whatever they are, and scanAndMerge merges them into the targets a      *)
(* scan of the tree finds.                                                 *)
(***************************************************************************)
writable(data) == [mode |-> "0644", data |-> data]

\* Source trees: the same function F in every file; two methods Run in the
\* first file and F in the others; F in the first file only.
MergeTrees ==
    { [p \in Paths |-> writable(fileF)],
      [p \in Paths |-> writable(IF p = 1 THEN fileRun ELSE fileF)],
      [p \in Paths |-> writable(IF p = 1 THEN fileF ELSE fileG)] }

\* The records a child can deliver, after lines 465-470.
TraceRecords ==
    {traceData(k, f, v, p) :
        k \in {"INPUT", "OUTPUT"}, f \in {"F", "Run"},
        v \in {jsonStr("dyn"), jsonNum, jsonAbsent}, p \in Paths}

MergeInit ==
    /\ mpc = "capture"
    /\ mTree \in MergeTrees
    /\ allTraces = <<>>
    /\ mTargets = <<>>
    /\ mCalls = <<>>
    /\ mSynth = <<>>

\* executeSinglePackage line 471 and runAndCapture line 410: one more
\* record reaches allTraces.
AppendTrace ==
    /\ mpc = "capture"
    /\ Len(allTraces) < MaxTraces
    /\ \E t \in TraceRecords : allTraces' = Append(allTraces, t)
    /\ UNCHANGED <<notMerge, mpc, mTree, mTargets, mCalls, mSynth>>

\* main line 152.
MergeTargets ==
    /\ mpc = "capture"
    /\ mTargets' = scanAndMerge(mTree, allTraces)
    /\ mpc' = "merged"
    /\ UNCHANGED <<notMerge, mTree, allTraces, mCalls, mSynth>>

MergeNext == AppendTrace \/ MergeTargets

(***************************************************************************)
(* Claims about the merge (SpecMerge).                                     *)
(***************************************************************************)
\* C5: every target scanAndMerge returns has a non-empty Output.
C5_OutputNonEmpty ==
    mpc = "merged" => \A i \in 1..Len(mTargets) : mTargets[i].Output # ""

\* A scanned target was dropped for want of an output while another one was
\* forwarded.
C5_Witness ==
    /\ mpc = "merged"
    /\ mTargets # <<>>
    /\ Len(mTargets) < Len(scanProjectForLx(mTree))

\* The records of allTraces observed in file p.
tracesOf(p) == SelectSeq(allTraces, LAMBDA t : t.file = p)

\* The targets of ts that lie in file p.
targetsIn(ts, p) == SelectSeq(ts, LAMBDA t : t.FilePath = p)

\* The last OUTPUT record for function f of file p, if there is one, gives a
\* non-empty output.
OutputObserved(f, p) ==
    \E n \in 1..Len(allTraces) :
        /\ allTraces[n].kind = "OUTPUT"
        /\ allTraces[n].function = f /\ allTraces[n].file = p
        /\ rawText(allTraces[n].value) # ""
        /\ \A m \in (n + 1)..Len(allTraces) :
             ~(/\ allTraces[m].kind = "OUTPUT"
               /\ allTraces[m].function = f /\ allTraces[m].file = p)

\* C6: the targets of a file are those the records of that file alone give;
\* a scanned marker function is forwarded exactly when its own file's
\* records end in a non-empty OUTPUT for its name, and the forwarded target
\* carries that file's path.
C6_MatchedPerFile ==
    mpc = "merged" =>
        /\ \A p \in Paths :
             targetsIn(mTargets, p) = targetsIn(scanAndMerge(mTree, tracesOf(p)), p)
        /\ LET raw == scanProjectForLx(mTree)
           IN  \A i \in 1..Len(raw) :
                 OutputObserved(raw[i].FuncName, raw[i].FilePath)
                 <=> \E j \in 1..Len(mTargets) :
                        /\ mTargets[j].FuncName = raw[i].FuncName
                        /\ mTargets[j].FilePath = raw[i].FilePath

\* F is declared in files 1 and 2, an OUTPUT was observed for F of file 1
\* only, and the one target forwarded is F of file 1.
C6_Witness ==
    /\ mpc = "merged"
    /\ \A p \in {1, 2} : \E i \in 1..Len(scanProjectForLx(mTree)) :
         /\ scanProjectForLx(mTree)[i].FuncName = "F"
         /\ scanProjectForLx(mTree)[i].FilePath = p
    /\ OutputObserved("F", 1) /\ ~OutputObserved("F", 2)
    /\ Len(mTargets) = 1
    /\ mTargets[1].FuncName = "F" /\ mTargets[1].FilePath = 1

\* The record t names a function and a file that the scan found a marker
\* function for.
scanned(t) ==
    \E i \in 1..Len(scanProjectForLx(mTree)) :
        /\ scanProjectForLx(mTree)[i].FuncName = t.function
        /\ scanProjectForLx(mTree)[i].FilePath = t.file

\* C30: every target scanAndMerge returns has the function name and the
\* file path of a marker function the scan found, and the targets are those
\* the records of scanned functions alone give: a record that matches no
\* scanned function changes nothing.
C30_TraceAddsNoTarget ==
    mpc = "merged" =>
        /\ \A j \in 1..Len(mTargets) :
             \E i \in 1..Len(scanProjectForLx(mTree)) :
                /\ scanProjectForLx(mTree)[i].FuncName = mTargets[j].FuncName
                /\ scanProjectForLx(mTree)[i].FilePath = mTargets[j].FilePath
        /\ mTargets = scanAndMerge(mTree, SelectSeq(allTraces, scanned))

\* An OUTPUT record with a value arrived for a function and file the scan
\* found no marker function for, another record gave a scanned function its
\* output, and the merge returned that one target.
C30_Witness ==
    /\ mpc = "merged"
    /\ \E n \in 1..Len(allTraces) :
         /\ ~scanned(allTraces[n])
         /\ allTraces[n].kind = "OUTPUT" /\ rawText(allTraces[n].value) # ""
    /\ Len(mTargets) = 1
    /\ Len(scanProjectForLx(mTree)) > 1

\* C34 (as claimed): no two targets scanAndMerge returns have the same
\* function name and file path.
C34_TargetsUniqueByKey ==
    mpc = "merged" =>
        \A i, j \in 1..Len(mTargets) :
            (/\ mTargets[i].FuncName = mTargets[j].FuncName
             /\ mTargets[i].FilePath = mTargets[j].FilePath) => i = j

\* The records of allTraces of one kind for function name of file p.
recordsOf(kind, name, p) ==
    SelectSeq(allTraces,
              LAMBDA t : t.kind = kind /\ t.function = name /\ t.file = p)

\* The value of a record as text: a string that is not empty without its
\* quotes, anything else as the JSON text it came in.
valueText(v) == IF v.t = "str" /\ v.s # "" THEN v.s ELSE rawText(v)

\* C38: after the merge of allTraces the prompt of a scanned target is the
\* value of the last INPUT record with its key (the scanned prompt when
\* there is none) and its output is the value of the last OUTPUT record
\* with its key (empty when there is none); the targets returned are the
\* merged ones.
C38_LastRecordWins ==
    mpc = "merged" =>
        LET raw    == scanProjectForLx(mTree)
            merged == mergeTraces(indexOf(raw), allTraces)
        IN  /\ \A i \in 1..Len(raw) :
                  LET ins  == recordsOf("INPUT", raw[i].FuncName, raw[i].FilePath)
                      outs == recordsOf("OUTPUT", raw[i].FuncName, raw[i].FilePath)
                      cur  == merged[targetKey(raw[i])]
                  IN  /\ cur.Prompt = IF ins = <<>>
                                      THEN indexOf(raw)[targetKey(raw[i])].Prompt
                                      ELSE valueText(ins[Len(ins)].value)
                      /\ cur.Output = IF outs = <<>> THEN ""
                                      ELSE rawText(outs[Len(outs)].value)
                      /\ cur.Output # "" =>
                            \E j \in 1..Len(mTargets) : mTargets[j] = cur
            /\ \A j \in 1..Len(mTargets) : mTargets[j] = merged[targetKey(mTargets[j])]

\* Two OUTPUT records with different values arrived for one scanned
\* function, and the target returned carries the value of the second one.
C38_Witness ==
    /\ mpc = "merged"
    /\ Len(allTraces) = 2
    /\ allTraces[1].kind = "OUTPUT" /\ allTraces[2].kind = "OUTPUT"
    /\ allTraces[1].function = allTraces[2].function
    /\ allTraces[1].file = allTraces[2].file
    /\ rawText(allTraces[1].value) # ""
    /\ rawText(allTraces[1].value) # rawText(allTraces[2].value)
    /\ \E j \in 1..Len(mTargets) :
          /\ mTargets[j].FuncName = allTraces[2].function
          /\ mTargets[j].FilePath = allTraces[2].file
          /\ mTargets[j].Output = rawText(allTraces[2].value)

(***************************************************************************)
(* SpecPrompt: the way of a prompt from the marker call the captured       *)
(* program runs to the target scanAndMerge returns.  The child runs the    *)
(* instrumented tree; the scanner reads the restored one.                  *)
(***************************************************************************)
\* func F() int { lx.Gen(a + b); return x }
fileDyn ==
    goFile(FALSE, <<funcDecl("F", "", intResult,
                             <<genStmt("a + b", FALSE), retStmt(<<plainExpr("x")>>)>>)>>)

\* func F() int { func() { lx.Gen(a + b) }(); return x }
fileLit ==
    goFile(FALSE, <<funcDecl("F", "", intResult,
                             <<litGenStmt("a + b", FALSE), retStmt(<<plainExpr("x")>>)>>)>>)

\* func (A) Run() int { lx.Gen(a + b); return x }
fileRunDyn ==
    goFile(FALSE, <<funcDecl("Run", "A", intResult,
                             <<genStmt("a + b", FALSE), retStmt(<<plainExpr("x")>>)>>)>>)

\* func F() int { lx.Gen(`l1
\* l2`); return x }
fileMulti ==
    goFile(FALSE, <<funcDecl("F", "", intResult,
                             <<genStmt("l1\nl2", TRUE), retStmt(<<plainExpr("x")>>)>>)>>)

\* func F() int { lx.Gen(""); return x }
fileEmpty ==
    goFile(FALSE, <<funcDecl("F", "", intResult,
                             <<genStmt("", TRUE), retStmt(<<plainExpr("x")>>)>>)>>)

\* func F() (r int) { lx.Gen("p"); return }
fileBare ==
    goFile(FALSE, <<funcDecl("F", "", <<[names |-> 1, typ |-> "int"]>>,
                             <<genStmt("p", TRUE), retStmt(<<>>)>>)>>)

PromptTrees ==
    [Paths -> {writable(f) :
                  f \in {fileF, fileDyn, fileLit, fileRunDyn, fileMulti, fileEmpty,
                         fileBare}}]

\* The tree the child is built from: injectSpyCode has rewritten every file.
instrumentedTree(tree) ==
    [p \in DOMAIN tree |-> [tree[p] EXCEPT !.data = instrumentedFile(@)]]

PromptInit ==
    /\ mpc = "capture"
    /\ mTree \in PromptTrees
    /\ allTraces = <<>>
    /\ mTargets = <<>>
    /\ mCalls = <<>>
    /\ mSynth = <<>>

\* The child calls a function and leaves it through one of its exit points:
\* the probes on that path print their records (lx.go), the parent decodes
\* them (executeSinglePackage lines 463-471) and appends them (line 410).
CallMarker ==
    /\ mpc = "capture"
    /\ Len(mCalls) < MaxCalls
    /\ \E c \in CallSites(instrumentedTree(mTree)) :
         /\ allTraces' = allTraces \o capturedTraces(instrumentedTree(mTree), {c})
         /\ mCalls' = Append(mCalls, c)
    /\ UNCHANGED <<notMerge, mpc, mTree, mTargets, mSynth>>

\* strings.ReplaceAll on a string kept as the sequence of its pieces: the
\* occurrences of old that do not overlap, from the left.
RECURSIVE ReplaceAll(_, _, _)
ReplaceAll(str, old, new) ==
    IF Len(str) < Len(old) THEN str
    ELSE IF SubSeq(str, 1, Len(old)) = old
    THEN new \o ReplaceAll(SubSeq(str, Len(old) + 1, Len(str)), old, new)
    ELSE <<Head(str)>> \o ReplaceAll(Tail(str), old, new)

WhiteSpace == {" ", "\t", "\n", "\r"}

\* strings.TrimSpace.
TrimSpace(str) ==
    LET inked == {i \in 1..Len(str) : str[i] \notin WhiteSpace}
    IN  IF inked = {} THEN <<>>
        ELSE SubSeq(str, CHOOSE i \in inked : \A j \in inked : i <= j,
                         CHOOSE i \in inked : \A j \in inked : i >= j)

\* cmd/main.go singleLine: line breaks become blanks.
singleLine(str) ==
    TrimSpace(ReplaceAll(ReplaceAll(str, <<"\r", "\n">>, <<"\n">>), <<"\n">>, <<" ">>))

\* cmd/main.go sanitizeComment.
sanitizeComment(str) ==
    ReplaceAll(ReplaceAll(singleLine(str), <<"*", "/">>, <<"*", " ", "/">>),
               <<"/", "/">>, <<"/", " ", "/">>)

\* The prompts of the targets as sequences of pieces, and back; the only
\* one with a line break is "l1\nl2".
pieces(prompt) ==
    CASE prompt = ""       -> <<>>
      [] prompt = "l1\nl2" -> <<"l1", "\n", "l2">>
      [] OTHER             -> <<prompt>>

textOf(str) ==
    CASE str = <<>>               -> ""
      [] Len(str) = 1             -> str[1]
      [] str = <<"l1", " ", "l2">> -> "l1 l2"
      [] str = <<"l1", "\n", "l2">> -> "l1\nl2"
      [] OTHER                    -> "?"

\* processSingleTarget line 767; the prompts of the model are shorter than
\* the limit of -max-prompt.
requestPrompt(target) == textOf(singleLine(pieces(target.Prompt)))

\* Lines 767-849 and 1116-1120 for the next target: the text of the TASK
\* section of the request, and the text after "// lx-prompt: " in the body
\* applyCodeToFile writes when the request returned code.
SynthesizeTarget ==
    /\ mpc = "merged"
    /\ Len(mSynth) < Len(mTargets)
    /\ LET target == mTargets[Len(mSynth) + 1]
           prompt == requestPrompt(target)
       IN  \E llmOk \in BOOLEAN :
             mSynth' = Append(mSynth,
                          [FuncName |-> target.FuncName, FilePath |-> target.FilePath,
                           request |-> prompt, spliced |-> llmOk,
                           comment |-> textOf(sanitizeComment(pieces(prompt)))])
    /\ UNCHANGED <<notMerge, mpc, mTree, allTraces, mTargets, mCalls>>

PromptNext == CallMarker \/ MergeTargets \/ SynthesizeTarget

\* The prompts the marker calls of the function name of file p passed at run
\* time, in the calls the child made.
executedPrompts(p, name) ==
    {runtimePrompt(stmt) : stmt \in
        UNION {LET fn == instrumentedTree(mTree)[p].data.decls[mCalls[n][2]]
               IN  IF mCalls[n][1] = p /\ fn.name = name
                   THEN {fn.body[j] : j \in {i \in 1..(mCalls[n][3] - 1) :
                                                fn.body[i].kind = "gen"}}
                   ELSE {} : n \in 1..Len(mCalls)}}

\* C22 (as claimed): a merged target whose marker call ran during capture
\* carries the prompt string that call passed at run time.
C22_RuntimePromptWins ==
    mpc = "merged" =>
        \A i \in 1..Len(mTargets) :
            LET ran == executedPrompts(mTargets[i].FilePath, mTargets[i].FuncName)
            IN  ran # {} => mTargets[i].Prompt \in ran

\* The INPUT records of allTraces that carry the key of a target.
inputsOf(name, p) ==
    SelectSeq(allTraces,
              LAMBDA t : t.kind = "INPUT" /\ t.function = name /\ t.file = p)

\* C23 (as claimed): for a target whose static prompt differs from the
\* prompt of the INPUT record observed for it, the request sent to the LLM
\* carries the observed prompt and the comment stamped into the new body
\* carries the static one.
C23_RequestDynamicCommentStatic ==
    \A n \in 1..Len(mSynth) :
        LET r       == mSynth[n]
            static  == indexOf(scanProjectForLx(mTree))[mergeKey(r.FuncName, r.FilePath)].Prompt
            inputs  == inputsOf(r.FuncName, r.FilePath)
            dynamic == inputs[Len(inputs)].value.s
        IN  (inputs # <<>> /\ dynamic # static) =>
                /\ r.request = textOf(singleLine(pieces(dynamic)))
                /\ r.spliced => r.comment = textOf(sanitizeComment(pieces(static)))

\* The marker calls of function name in file p all have an empty prompt:
\* the empty string literal, or no argument.
onlyEmptyPrompts(p, name) ==
    \A d \in 1..Len(mTree[p].data.decls) :
        LET fn == mTree[p].data.decls[d]
        IN  fn.name = name =>
                \A k \in 1..Len(fn.body) : fn.body[k].kind = "gen" => fn.body[k].arg = ""

\* C33 (as claimed): the scan gives no target, and so the merge forwards
\* none, for a function whose marker calls all have an empty prompt.
C33_EmptyPromptNoTarget ==
    mpc = "merged" =>
        /\ \A i \in 1..Len(scanProjectForLx(mTree)) :
              ~onlyEmptyPrompts(scanProjectForLx(mTree)[i].FilePath,
                                scanProjectForLx(mTree)[i].FuncName)
        /\ \A i \in 1..Len(mTargets) :
              ~onlyEmptyPrompts(mTargets[i].FilePath, mTargets[i].FuncName)

\* The scan found a marker function name in file p.
isTarget(p, name) ==
    \E i \in 1..Len(scanProjectForLx(mTree)) :
        /\ scanProjectForLx(mTree)[i].FuncName = name
        /\ scanProjectForLx(mTree)[i].FilePath = p

\* C36 (as claimed): every scanned marker function that the child called
\* and that returned has an OUTPUT record among the traces and a target
\* among those the merge returns.
C36_CalledMarkerForwarded ==
    mpc = "merged" =>
        \A n \in 1..Len(mCalls) :
            LET p    == mCalls[n][1]
                name == mTree[p].data.decls[mCalls[n][2]].name
            IN  isTarget(p, name) =>
                    /\ \E m \in 1..Len(allTraces) :
                          /\ allTraces[m].kind = "OUTPUT"
                          /\ allTraces[m].function = name /\ allTraces[m].file = p
                    /\ \E j \in 1..Len(mTargets) :
                          mTargets[j].FuncName = name /\ mTargets[j].FilePath = p

(***************************************************************************)
(* SpecScan: the scanner loop of executeSinglePackage, lines 450-482.  A   *)
(* string is the sequence of its pieces: the two marker words, the digits  *)
(* of a token, the JSON text of a trace record, the JSON text null, and    *)
(* other text.                                                             *)
(***************************************************************************)
HexDigits == {"0", "1"}

\* mustRandomToken: the strings hex.EncodeToString can return.
Tokens == [1..TokLen -> HexDigits]

startMarker(token) == <<"LX_TRACE_START_">> \o token

endMarker(token) == <<"LX_TRACE_END_">> \o token

\* (mutant) the end of the line is not looked at.
HasSuffixUnchecked(str, suffix) == TRUE

HasPrefix(str, prefix) ==
    /\ Len(str) >= Len(prefix)
    /\ SubSeq(str, 1, Len(prefix)) = prefix

HasSuffix(str, suffix) ==
    /\ Len(str) >= Len(suffix)
    /\ SubSeq(str, Len(str) - Len(suffix) + 1, Len(str)) = suffix

TrimPrefix(str, prefix) ==
    IF HasPrefix(str, prefix) THEN SubSeq(str, Len(prefix) + 1, Len(str)) ELSE str

TrimSuffix(str, suffix) ==
    IF HasSuffix(str, suffix) THEN SubSeq(str, 1, Len(str) - Len(suffix)) ELSE str

\* lx.go sendTrace: the line a probe holding token prints for a payload.
sendTrace(token, payload) == startMarker(token) \o payload \o endMarker(token)

\* json.Unmarshal([]byte(payload), &td): the record of a JSON object, the
\* zero record for null, an error for anything else.
zeroTrace == traceData("", <<"">>, jsonAbsent, 0)

jsonUnmarshal(payload) ==
    CASE payload = <<"{td}">> -> [ok |-> TRUE, td |-> Spy(1, "F")]
      [] payload = <<"null">> -> [ok |-> TRUE, td |-> zeroTrace]
      [] OTHER                -> [ok |-> FALSE, td |-> zeroTrace]

\* The tokens that differ from token in exactly one position.
flipped(token) ==
    {t \in Tokens : Cardinality({i \in 1..TokLen : t[i] # token[i]}) = 1}

\* The lines a child holding token can print: a start marker with the
\* token or with a flipped one (or none, or text in front of it), a
\* payload, an end marker likewise (or with a digit in front of the token).
Payloads == {<<"{td}">>, <<"null">>, <<"text">>, <<"0", "{td}">>}

StdoutLines(token) ==
    LET near  == {token} \cup flipped(token)
        heads == {<<>>, <<"text">> \o startMarker(token)}
                    \cup {startMarker(t) : t \in near}
        tails == {<<>>, endMarker(token) \o <<"text">>,
                  <<"LX_TRACE_END_", "1">> \o token}
                    \cup {endMarker(t) : t \in near}
    IN  {h \o mid \o e : h \in heads, mid \in Payloads, e \in tails}

ScanInit ==
    /\ sToken \in Tokens
    /\ sLine = <<>>
    /\ sTraces = <<>>
    /\ sRead = 0

\* Line 460.
framed(line, token) ==
    HasPrefix(line, startMarker(token)) /\ HasSuffix(line, endMarker(token))

\* Line 461.
payloadOf(line, token) ==
    TrimSuffix(TrimPrefix(line, startMarker(token)), endMarker(token))

\* Lines 457-476: a framed line whose payload decodes adds a record.
ScanTrace ==
    /\ sRead < MaxLines
    /\ \E line \in StdoutLines(sToken) :
         /\ framed(line, sToken)
         /\ jsonUnmarshal(payloadOf(line, sToken)).ok
         /\ sTraces' = Append(sTraces,
                          decodeRecord(jsonUnmarshal(payloadOf(line, sToken)).td))
         /\ sLine' = line
    /\ sRead' = sRead + 1
    /\ UNCHANGED <<notScan, sToken>>

\* Lines 460-476: a framed line whose payload does not decode is dropped.
ScanMalformed ==
    /\ sRead < MaxLines
    /\ \E line \in StdoutLines(sToken) :
         /\ framed(line, sToken)
         /\ ~jsonUnmarshal(payloadOf(line, sToken)).ok
         /\ sLine' = line
    /\ sRead' = sRead + 1
    /\ UNCHANGED <<notScan, sToken, sTraces>>

\* Lines 479-481: any other line is the program's own output.
ScanStdout ==
    /\ sRead < MaxLines
    /\ \E line \in StdoutLines(sToken) :
         /\ ~framed(line, sToken)
         /\ sLine' = line
    /\ sRead' = sRead + 1
    /\ UNCHANGED <<notScan, sToken, sTraces>>

ScanNext == ScanTrace \/ ScanMalformed \/ ScanStdout

(***************************************************************************)
(* Claims about the scanner (SpecScan).                                    *)
(***************************************************************************)
\* The digits that follow position i of a line, up to the first piece that
\* is not a digit.
digitsAfter(line, i) ==
    LET n == CHOOSE k \in 0..Len(line) :
                /\ i + k <= Len(line)
                /\ \A j \in (i + 1)..(i + k) : line[j] \in HexDigits
                /\ i + k = Len(line) \/ line[i + k + 1] \notin HexDigits
    IN  SubSeq(line, i + 1, i + n)

\* The token the start marker at the head of a line carries.
startTokenOf(line) ==
    IF line # <<>> /\ line[1] = "LX_TRACE_START_" THEN digitsAfter(line, 1)
    ELSE <<"none">>

\* The token the end marker at the tail of a line carries.
endTokenOf(line) ==
    IF \E i \in 1..Len(line) :
          line[i] = "LX_TRACE_END_" /\ digitsAfter(line, i) = SubSeq(line, i + 1, Len(line))
    THEN LET i == CHOOSE j \in 1..Len(line) :
                     /\ line[j] = "LX_TRACE_END_"
                     /\ digitsAfter(line, j) = SubSeq(line, j + 1, Len(line))
         IN  SubSeq(line, i + 1, Len(line))
    ELSE <<"none">>

\* C9: a step of the scanner adds a record only for a line that begins with
\* the start marker and ends with the end marker of the child's own token; a
\* line either of whose markers carries another token adds none.
C9_OnlyOwnTokenDecoded ==
    [][sTraces' # sTraces =>
          /\ startTokenOf(sLine') = sToken
          /\ endTokenOf(sLine') = sToken
          /\ sLine' = sendTrace(sToken, payloadOf(sLine', sToken))]_vars

\* A probe's line was decoded, and after it a line framed like a probe's but
\* with one digit of the token in its end marker flipped was read and added
\* nothing.
C9_Witness ==
    /\ sRead = 2
    /\ Len(sTraces) = 1
    /\ \E t \in flipped(sToken) :
         sLine = startMarker(sToken) \o <<"{td}">> \o endMarker(t)

(***************************************************************************)
(* SpecEnv: the environment executeSinglePackage hands to each child,      *)
(* lines 431-438.  An environment entry key=value is the pair <<key,       *)
(* value>>; the driver's own environment maps the names that are set to    *)
(* their values.                                                           *)
(***************************************************************************)
allowList ==
    <<"PATH", "HOME", "USER",
      "GOPATH", "GOROOT", "GOMODCACHE",
      "GOPRIVATE", "GOPROXY", "GONOPROXY", "GONOSUMDB",
      "CGO_ENABLED", "GOOS", "GOARCH",
      "TMPDIR">>

\* The names the model lets the driver's environment set, and their values.
EnvNames == {"PATH", "GOPROXY", "TMPDIR", "AWS_SECRET_ACCESS_KEY", "LX_MODE"}

EnvValues == {"", "v"}

ParentEnvs == UNION {[S -> EnvValues] : S \in SUBSET EnvNames}

\* (mutant) the child inherits every variable of the driver.
inheritEnviron(env) ==
    LET names == CHOOSE sq \in [1..Cardinality(DOMAIN env) -> DOMAIN env] :
                     \A i, j \in DOMAIN sq : sq[i] = sq[j] => i = j
    IN  [i \in DOMAIN names |-> <<names[i], env[names[i]]>>]

\* os.LookupEnv per allowlisted key, in the order of the list.
buildSecureEnvAllowlist(env) ==
    LET set == SelectSeq(allowList, LAMBDA key : key \in DOMAIN env)
    IN  [i \in 1..Len(set) |-> <<set[i], env[set[i]]>>]

\* Lines 434-438.
childEnv(env, token) ==
    buildSecureEnvAllowlist(env) \o
        << <<"LX_MODE", "capture">>,
           <<"LX_TRACE_TOKEN", token>>,
           <<"LX_TRACE_MAX_BYTES", "65536">> >>

EnvInit ==
    /\ environ \in ParentEnvs
    /\ cmdEnv = <<>>
    /\ envToken = <<>>
    /\ started = 0

\* runAndCapture line 404, executeSinglePackage lines 431-446: the next
\* entry point's child is started with a fresh token.
StartChild ==
    /\ started < MaxChildren
    /\ \E token \in Tokens :
         /\ envToken' = token
         /\ cmdEnv' = childEnv(environ, token)
    /\ started' = started + 1
    /\ UNCHANGED <<notEnv, environ>>

EnvNext == StartChild

(***************************************************************************)
(* Claims about the child's environment (SpecEnv).                         *)
(***************************************************************************)
Allowed == {allowList[i] : i \in 1..Len(allowList)}

entriesOf(env) == {env[i] : i \in 1..Len(env)}

withoutToken(env) == SelectSeq(env, LAMBDA e : e[1] # "LX_TRACE_TOKEN")

\* Two environments that set the same allowlisted names to the same values.
sameAllowed(a, b) ==
    \A key \in Allowed :
        /\ key \in DOMAIN a <=> key \in DOMAIN b
        /\ key \in DOMAIN a => a[key] = b[key]

\* C10: the entries of a child's environment are the allowlisted variables
\* set in the driver's environment, with their values, and LX_MODE=capture,
\* LX_TRACE_TOKEN=<token>, LX_TRACE_MAX_BYTES=65536; a driver whose
\* environment differs in other variables only hands its child the same
\* environment, the token apart.
C10_ChildEnvAllowlisted ==
    started > 0 =>
        /\ entriesOf(cmdEnv) =
              {<<key, environ[key]>> : key \in Allowed \cap DOMAIN environ}
              \cup { <<"LX_MODE", "capture">>,
                     <<"LX_TRACE_TOKEN", envToken>>,
                     <<"LX_TRACE_MAX_BYTES", "65536">> }
        /\ \A other \in ParentEnvs : \A token \in Tokens :
              sameAllowed(environ, other) =>
                  withoutToken(childEnv(other, token)) = withoutToken(cmdEnv)

\* The driver ran with a secret and its own LX_MODE set besides PATH, and
\* started its second child.
C10_Witness ==
    /\ started = 2
    /\ {"PATH", "AWS_SECRET_ACCESS_KEY", "LX_MODE"} \subseteq DOMAIN environ
    /\ environ["LX_MODE"] = "v"
    /\ <<"PATH", environ["PATH"]>> \in entriesOf(cmdEnv)

(***************************************************************************)
(* SpecRun: runAndCapture, lines 370-420, with the part of                 *)
(* executeSinglePackage that decides what a child's run returns.  An       *)
(* entry-point directory is a number; an error is a record [kind, dirs].   *)
(***************************************************************************)
noError == [kind |-> "nil", dirs |-> <<>>]

\* The records the child of directory d can deliver.
RunRecords(d) ==
    {traceData("INPUT", "F", jsonStr("dyn"), d), traceData("OUTPUT", "F", jsonNum, d)}

RunInit ==
    /\ rpc = "find"
    /\ entryPoints \in 0..NumEntries
    /\ dir = 0
    /\ deadline = FALSE
    /\ pipe = <<>>
    /\ emitted = <<>>
    /\ scanErr = FALSE
    /\ childTraces = <<>>
    /\ runTraces = <<>>
    /\ executionErrors = <<>>
    /\ attempted = {}
    /\ received = <<>>
    /\ result = [traces |-> <<>>, err |-> noError]

\* Lines 374-391: the walk or the lookup of go fails, or no package main is
\* found, and runAndCapture returns; else the loop starts.
FindMainPackages ==
    /\ rpc = "find"
    /\ \E setupFails \in BOOLEAN :
         IF setupFails \/ entryPoints = 0
         THEN /\ result' = [traces |-> <<>>,
                         err |-> [kind |-> IF setupFails THEN "setup" ELSE "noentry",
                                  dirs |-> <<>>]]
              /\ rpc' = "returned"
              /\ dir' = dir
         ELSE /\ rpc' = "loop"
              /\ dir' = 1
              /\ result' = result
    /\ UNCHANGED <<notRun, entryPoints, deadline, pipe, emitted, scanErr, childTraces, runTraces,
                   executionErrors, attempted, received>>

\* The context of line 371 expires.
DeadlineExpires ==
    /\ rpc \in {"loop", "child"}
    /\ ~deadline
    /\ deadline' = TRUE
    /\ UNCHANGED <<notRun, rpc, entryPoints, dir, pipe, emitted, scanErr, childTraces, runTraces,
                   executionErrors, attempted, received, result>>

\* (mutant) the loop ends at the first failing entry point.
nextEntryStopsOnError(d, err, n) == IF err = "nil" THEN d + 1 ELSE n + 1

\* Lines 396 and 408: the loop goes on to the next entry point.
nextEntry(d, err, n) == d + 1

\* Lines 404-409 and 422-448: executeSinglePackage is called for the next
\* directory; cmd.Start fails (it does when the context has expired) and the
\* directory is recorded as failing, or the child runs.
StartEntry ==
    /\ rpc = "loop" /\ dir <= entryPoints
    /\ attempted' = attempted \cup {dir}
    /\ \E startFails \in BOOLEAN :
         IF startFails \/ deadline
         THEN /\ executionErrors' = Append(executionErrors, <<dir, "start">>)
              /\ dir' = nextEntry(dir, "start", entryPoints)
              /\ received' = [d \in DOMAIN received \cup {dir} |->
                                 IF d = dir THEN [traces |-> <<>>, err |-> "start", long |-> FALSE]
                                 ELSE received[d]]
              /\ UNCHANGED <<rpc, childTraces, emitted, scanErr>>
         ELSE /\ rpc' = "child"
              /\ childTraces' = <<>>
              /\ scanErr' = FALSE
              /\ emitted' = [d \in DOMAIN emitted \cup {dir} |->
                                IF d = dir THEN <<>> ELSE emitted[d]]
              /\ UNCHANGED <<dir, executionErrors, received>>
    /\ UNCHANGED <<notRun, entryPoints, deadline, pipe, runTraces, result>>

\* A line of the child's stdout: a framed trace record, or other output.
traceLineOf(td) == [trace |-> TRUE, long |-> FALSE, td |-> td]

otherLine == [trace |-> FALSE, long |-> FALSE, td |-> traceData("", "", jsonAbsent, 0)]

\* Output of the child's own that is longer than the 1 MiB of line 455.
longLine == [otherLine EXCEPT !.long = TRUE]

\* The child prints a line: a probe's record (lx.go line 102) or output of
\* its own.  The line goes to the end of the pipe of line 440.
ChildPrints ==
    /\ rpc = "child"
    /\ Len(pipe) + Len(childTraces) < MaxLines
    /\ scanErr => pipe = <<>>
    /\ \/ \E td \in RunRecords(dir) :
            /\ pipe' = Append(pipe, traceLineOf(td))
            /\ emitted' = [emitted EXCEPT ![dir] = Append(@, td)]
       \/ /\ Len(pipe) = 0
          /\ \E line \in {otherLine, longLine} : pipe' = Append(pipe, line)
          /\ emitted' = emitted
    /\ UNCHANGED <<notRun, rpc, entryPoints, dir, deadline, scanErr, childTraces, runTraces,
                   executionErrors, attempted, received, result>>

\* (mutant) the record goes to the front of the list.
prependTrace(trs, td) == <<td>> \o trs

\* executeSinglePackage line 471.
appendTrace(trs, td) == Append(trs, td)

\* bufio.Scanner with the buffer of line 455: Scan returns false at a line
\* longer than the cap, and Err is ErrTooLong.
scanStops(line) == line.long

\* executeSinglePackage lines 457-482: the scanner reads the line at the
\* head of the pipe; a record is appended to traces, other output is not;
\* at a line over the cap the loop ends.
ChildRecord ==
    /\ rpc = "child"
    /\ pipe # <<>>
    /\ ~scanErr
    /\ childTraces' = IF Head(pipe).trace THEN appendTrace(childTraces, Head(pipe).td)
                      ELSE childTraces
    /\ scanErr' = scanStops(Head(pipe))
    /\ pipe' = Tail(pipe)
    /\ UNCHANGED <<notRun, rpc, entryPoints, dir, deadline, emitted, runTraces,
                   executionErrors, attempted, received, result>>

\* executeSinglePackage lines 484-487: the error of cmd.Wait, or else the
\* scanner's.
waitError(waitFails, scanFails) ==
    IF waitFails THEN "exit" ELSE IF scanFails THEN "toolong" ELSE "nil"

\* executeSinglePackage lines 484-493: what the call returns as error.
childError(waitErr, expired) ==
    IF expired THEN "timeout" ELSE waitErr

\* executeSinglePackage lines 484-493 and runAndCapture lines 404-410: the
\* child is over and the scanner has met the end of its output (or an
\* error, which the call returns); its directory is recorded as failing, or
\* its records are appended to allTraces.
ChildReturns ==
    /\ rpc = "child"
    /\ \E waitFails \in BOOLEAN :
         /\ pipe # <<>> => scanErr
         /\ LET err == childError(waitError(waitFails, scanErr), deadline)
            IN  /\ IF err # "nil"
                   THEN /\ executionErrors' = Append(executionErrors, <<dir, err>>)
                        /\ runTraces' = runTraces
                   ELSE /\ runTraces' = runTraces \o childTraces
                        /\ executionErrors' = executionErrors
                /\ dir' = nextEntry(dir, err, entryPoints)
                /\ received' = [d \in DOMAIN received \cup {dir} |->
                                   IF d = dir THEN [traces |-> childTraces, err |-> err,
                                                   long |-> scanErr]
                                   ELSE received[d]]
    /\ rpc' = "loop"
    /\ pipe' = <<>>
    /\ UNCHANGED <<notRun, entryPoints, deadline, emitted, scanErr, childTraces,
                   attempted, result>>

\* Lines 413-419.
ReturnTraces ==
    /\ rpc = "loop" /\ dir > entryPoints
    /\ result' = [traces |-> runTraces,
               err |-> IF Len(executionErrors) > 0
                       THEN [kind |-> "failed", dirs |-> executionErrors]
                       ELSE noError]
    /\ rpc' = "returned"
    /\ UNCHANGED <<notRun, entryPoints, dir, deadline, pipe, emitted, scanErr, childTraces,
                   runTraces, executionErrors, attempted, received>>

RunNext ==
    \/ FindMainPackages \/ DeadlineExpires \/ StartEntry
    \/ ChildPrints \/ ChildRecord \/ ChildReturns \/ ReturnTraces

(***************************************************************************)
(* Claims about runAndCapture (SpecRun).                                   *)
(***************************************************************************)
\* runAndCapture returned from its loop over the entry points.
loopReturned == rpc = "returned" /\ result.err.kind \in {"nil", "failed"}

\* Every record of the sequence recs occurs in the sequence traces.
Included(recs, trs) ==
    \A k \in 1..Len(recs) : \E j \in 1..Len(trs) : trs[j] = recs[k]

\* C11 (as claimed): when a child was ended by the deadline, the error
\* runAndCapture returns names the timeout and the traces it returns include
\* the records parsed from that child.
C11_TimeoutKeepsRecords ==
    loopReturned =>
        \A d \in DOMAIN received :
            received[d].err = "timeout" =>
                /\ result.err.kind = "failed"
                /\ \E i \in 1..Len(result.err.dirs) :
                      result.err.dirs[i] = <<d, "timeout">>
                /\ Included(received[d].traces, result.traces)

\* The records of the entry points 1..n that did not fail, in order.
RECURSIVE partialTraces(_)
partialTraces(n) ==
    IF n = 0 THEN <<>>
    ELSE partialTraces(n - 1) \o
            (IF received[n].err = "nil" THEN received[n].traces ELSE <<>>)

RECURSIVE emittedUpTo(_)
emittedUpTo(n) ==
    IF n = 0 THEN <<>>
    ELSE emittedUpTo(n - 1) \o
            (IF received[n].err = "nil" THEN emitted[n] ELSE <<>>)

\* C29: the records runAndCapture returns are the records the children
\* that did not fail printed, in the order each child printed them and the
\* children in the order of the entry points; while a child runs, the
\* records read so far are the first ones it printed.
C29_EmissionOrderKept ==
    /\ rpc = "child" =>
          /\ Len(childTraces) <= Len(emitted[dir])
          /\ childTraces = SubSeq(emitted[dir], 1, Len(childTraces))
    /\ loopReturned => result.traces = emittedUpTo(entryPoints)

\* Two children ran without error; the first one printed an INPUT and then
\* an OUTPUT record, the second one an OUTPUT and then an INPUT record, and
\* the four records came back in that order.
C29_Witness ==
    /\ loopReturned /\ result.err = noError
    /\ entryPoints >= 2
    /\ Len(result.traces) = 4
    /\ result.traces[1].kind = "INPUT" /\ result.traces[2].kind = "OUTPUT"
    /\ result.traces[3].kind = "OUTPUT" /\ result.traces[4].kind = "INPUT"
    /\ result.traces[2].file = 1 /\ result.traces[3].file = 2

\* C31 (as claimed): when the scanner met a line over its cap in the output
\* of a child that did not fail otherwise, every record that child printed,
\* before the line and after it, is among the traces returned, and the
\* error returned does not name the child's directory.
C31_LongLineLosesOnlyItself ==
    loopReturned =>
        \A d \in DOMAIN received :
            (received[d].long /\ received[d].err \notin {"exit", "timeout"}) =>
                /\ Included(emitted[d], result.traces)
                /\ \A i \in 1..Len(result.err.dirs) : result.err.dirs[i][1] # d

(***************************************************************************)
(* SpecSynth: the synthesis workers of main, lines 158-184, each running   *)
(* processSingleTarget (lines 725-857) for one target.                     *)
(***************************************************************************)
\* func F() int { lx.Gen("p"); return x }
\* func G() { lx.Gen("q") }
\* func H() {}
fileFGH ==
    goFile(FALSE, <<funcDecl("F", "", intResult,
                             <<genStmt("p", TRUE), retStmt(<<plainExpr("x")>>)>>),
                    funcDecl("G", "", <<>>, <<genStmt("q", TRUE)>>),
                    funcDecl("H", "", <<>>, <<>>)>>)

\* Source trees after the restore: F, G and H in the first file, or the
\* two methods Run; F in every other file.
SynthTrees ==
    { [p \in Paths |-> writable(IF p = 1 THEN fileFGH ELSE fileF)],
      [p \in Paths |-> writable(IF p = 1 THEN fileRun ELSE fileF)] }

\* An OUTPUT record for every scanned target: every marker function was
\* reached.
allReached(tree) ==
    LET raw == scanProjectForLx(tree)
    IN  [i \in 1..Len(raw) |->
            traceData("OUTPUT", raw[i].FuncName, jsonNum, raw[i].FilePath)]

\* main line 160: the capacity of the semaphore.
semCap == 2

Workers == 1..Len(synTargets)

pathOf(w) == synTargets[w].FilePath

\* (mutant) every send on the semaphore goes through.
slotAlwaysFree(taken) == TRUE

\* main line 175: the send blocks while the channel is full.
slotFree(taken) == taken < semCap

\* (mutant) one mutex for the whole tree.
lockOfTree(path) == 1

\* main lines 162-167 and 178: the mutex of a target is that of its path.
lockOf(path) == path

\* (mutant) the mutex stays locked.
unlockForgotten(locks, path) == locks

lock(locks, path, w) == [locks EXCEPT ![lockOf(path)] = w]

unlock(locks, path) == [locks EXCEPT ![lockOf(path)] = 0]

\* The file after a splice of generated code that does not parse: gofmt
\* fails with a warning, and so does every later parse of the file.
brokenFile(data) == [data EXCEPT !.ok = FALSE]

SynthInit ==
    /\ synDisk \in SynthTrees
    /\ synBase = synDisk
    /\ synTargets = scanAndMerge(synDisk, allReached(synDisk))
    /\ wpc = [w \in 1..Len(synTargets) |-> "spawned"]
    /\ semaphore = 0
    /\ fileLocks = [p \in Paths |-> 0]
    /\ generated = [w \in 1..Len(synTargets) |-> "none"]
    /\ outcome = [w \in 1..Len(synTargets) |-> "none"]

\* main line 175.
Acquire ==
    \E w \in Workers :
        /\ wpc[w] = "spawned"
        /\ slotFree(semaphore)
        /\ semaphore' = semaphore + 1
        /\ wpc' = [wpc EXCEPT ![w] = "lock1"]
        /\ UNCHANGED <<notSynth, synTargets, synDisk, synBase, fileLocks, generated, outcome>>

\* processSingleTarget line 733.
LockFirst ==
    \E w \in Workers :
        /\ wpc[w] = "lock1"
        /\ fileLocks[lockOf(pathOf(w))] = 0
        /\ fileLocks' = lock(fileLocks, pathOf(w), w)
        /\ wpc' = [wpc EXCEPT ![w] = "win1"]
        /\ UNCHANGED <<notSynth, synTargets, synDisk, synBase, semaphore, generated, outcome>>

\* Lines 735-765: the file is parsed and the function looked up; the mutex
\* is released on each of the three ways out.
ParseWindow ==
    \E w \in Workers :
        /\ wpc[w] = "win1"
        /\ LET data == synDisk[pathOf(w)].data
           IN  IF ~data.ok
               THEN /\ outcome' = [outcome EXCEPT ![w] = "parse"]
                    /\ wpc' = [wpc EXCEPT ![w] = "returned"]
               ELSE IF ~canSplice(data, synTargets[w].FuncName)
               THEN /\ outcome' = [outcome EXCEPT ![w] = "notfound"]
                    /\ wpc' = [wpc EXCEPT ![w] = "returned"]
               ELSE /\ outcome' = outcome
                    /\ wpc' = [wpc EXCEPT ![w] = "llm"]
        /\ fileLocks' = unlock(fileLocks, pathOf(w))
        /\ UNCHANGED <<notSynth, synTargets, synDisk, synBase, semaphore, generated>>

\* (mutant) the error of llm.Generate is logged and the worker goes on.
afterGenerateErrorIgnored(r) == "lock2"

\* Lines 814-820: an error ends processSingleTarget; else the worker goes on
\* to the second window.
afterGenerate(r) == IF r = "err" THEN "returned" ELSE "lock2"

\* Lines 810-823: llm.Generate returns an error, or code: a body that
\* parses ("good") or one that does not ("bad").
Generate ==
    \E w \in Workers :
        /\ wpc[w] = "llm"
        /\ \E r \in {"err", "good", "bad"} :
             /\ generated' = [generated EXCEPT ![w] = r]
             /\ wpc' = [wpc EXCEPT ![w] = afterGenerate(r)]
             /\ outcome' = IF r = "err" THEN [outcome EXCEPT ![w] = "llm"] ELSE outcome
        /\ UNCHANGED <<notSynth, synTargets, synDisk, synBase, semaphore, fileLocks>>

\* Line 825.
LockSecond ==
    \E w \in Workers :
        /\ wpc[w] = "lock2"
        /\ fileLocks[lockOf(pathOf(w))] = 0
        /\ fileLocks' = lock(fileLocks, pathOf(w), w)
        /\ wpc' = [wpc EXCEPT ![w] = "win2"]
        /\ UNCHANGED <<notSynth, synTargets, synDisk, synBase, semaphore, generated, outcome>>

\* Lines 826-856: the file is parsed again, the function looked up again and
\* its body replaced; the deferred unlock runs on every way out.
SpliceWindow ==
    \E w \in Workers :
        /\ wpc[w] = "win2"
        /\ LET path == pathOf(w)
               data == synDisk[path].data
               name == synTargets[w].FuncName
           IN  IF ~data.ok
               THEN /\ outcome' = [outcome EXCEPT ![w] = "reparse"]
                    /\ synDisk' = synDisk
               ELSE IF ~canSplice(data, name)
               THEN /\ outcome' = [outcome EXCEPT ![w] = "refound"]
                    /\ synDisk' = synDisk
               ELSE IF ~canWrite(synDisk[path])
               THEN /\ outcome' = [outcome EXCEPT ![w] = "write"]
                    /\ synDisk' = synDisk
               ELSE /\ outcome' = [outcome EXCEPT ![w] = "ok"]
                    /\ \E fmtOk \in BOOLEAN :
                         synDisk' = writeFile(synDisk, path,
                            IF generated[w] = "good"
                            THEN splicedData(data, name, synTargets[w].Prompt, fmtOk)
                            ELSE brokenFile(splicedData(data, name, synTargets[w].Prompt, FALSE)))
        /\ fileLocks' = unlock(fileLocks, pathOf(w))
        /\ wpc' = [wpc EXCEPT ![w] = "returned"]
        /\ UNCHANGED <<notSynth, synTargets, synBase, semaphore, generated>>

\* (mutant) the slot is not given back.
slotKept(taken) == taken

\* main line 176: the deferred receive takes one element out of the channel.
releaseSlot(taken) == taken - 1

\* main lines 173 and 176: the deferred receive frees the slot, and the
\* deferred wg.Done() counts the worker as finished.
ReleaseSlot ==
    \E w \in Workers :
        /\ wpc[w] = "returned"
        /\ semaphore' = releaseSlot(semaphore)
        /\ wpc' = [wpc EXCEPT ![w] = "done"]
        /\ UNCHANGED <<notSynth, synTargets, synDisk, synBase, fileLocks, generated, outcome>>

SynthNext ==
    \/ Acquire \/ LockFirst \/ ParseWindow \/ Generate
    \/ LockSecond \/ SpliceWindow \/ ReleaseSlot

(***************************************************************************)
(* Claims about the synthesis workers (SpecSynth).                         *)
(***************************************************************************)
\* The worker is inside one of the two locked windows.
inWindow(w) == wpc[w] \in {"win1", "win2"}

\* The worker is blocked at fileMu.Lock().
waitsForLock(w) ==
    /\ wpc[w] \in {"lock1", "lock2"}
    /\ fileLocks[lockOf(pathOf(w))] # 0

\* The worker is inside processSingleTarget.
inProcess(w) == wpc[w] \in {"lock1", "win1", "llm", "lock2", "win2"}

\* C16: no two workers are inside a locked window for the same path at the
\* same time, and a worker that waits for a mutex waits for a worker whose
\* target lies in the same file.
C16_PerFileExclusion ==
    /\ \A v, w \in Workers :
          (v # w /\ inWindow(v) /\ inWindow(w)) => pathOf(v) # pathOf(w)
    /\ \A w \in Workers :
          waitsForLock(w) =>
              LET holder == fileLocks[lockOf(pathOf(w))]
              IN  /\ holder \in Workers \ {w}
                  /\ inWindow(holder)
                  /\ pathOf(holder) = pathOf(w)

\* One worker waits at the lock of the file another worker is splicing,
\* after a worker of another file has gone through both of its windows.
C16_Witness ==
    \E u, v, w \in Workers :
        /\ pathOf(u) = pathOf(v) /\ pathOf(w) # pathOf(u)
        /\ wpc[u] = "win2" /\ waitsForLock(v)
        /\ outcome[w] = "ok"

\* C17: a worker whose LLM request is in progress holds no mutex, and a
\* worker holds a mutex only inside one of its two windows: the second one
\* starts after the request has returned code.
C17_NoLockAcrossGenerate ==
    \A w \in Workers :
        /\ wpc[w] = "llm" => \A p \in DOMAIN fileLocks : fileLocks[p] # w
        /\ (\E p \in DOMAIN fileLocks : fileLocks[p] = w) => inWindow(w)
        /\ wpc[w] = "win2" => generated[w] # "none"

\* A request is in progress while another worker splices the same file.
C17_Witness ==
    \E v, w \in Workers :
        /\ v # w /\ pathOf(v) = pathOf(w)
        /\ wpc[v] = "llm"
        /\ wpc[w] = "win2" /\ fileLocks[lockOf(pathOf(w))] = w

\* C18: at most two workers are inside processSingleTarget; the slots taken
\* are those of the workers between the send and the deferred receive, and
\* a worker that is done has given its slot back.
C18_TwoWorkersAtMost ==
    /\ Cardinality({w \in Workers : inProcess(w)}) <= 2
    /\ semaphore = Cardinality({w \in Workers : inProcess(w) \/ wpc[w] = "returned"})
    /\ (\A w \in Workers : wpc[w] = "done") => semaphore = 0

\* Two workers are inside processSingleTarget, a third one is held back at
\* the semaphore, whatever way the earlier ones left.
C18_Witness ==
    /\ Cardinality(Workers) >= 3
    /\ Cardinality({w \in Workers : inProcess(w)}) = 2
    /\ \E w \in Workers : wpc[w] = "spawned"

\* The declarations of file p that a target of ts names: the functions that
\* were reached.
reachedDecls(ts, p) ==
    {d \in 1..Len(synBase[p].data.decls) :
        /\ IsMarkerFn(synBase[p].data.decls[d])
        /\ \E i \in 1..Len(ts) :
              /\ ts[i].FilePath = p
              /\ ts[i].FuncName = synBase[p].data.decls[d].name}

hasNewBody(fn) ==
    Len(fn.body) = 1 /\ fn.body[1].kind = "synth"

\* C19 (as claimed; formatting apart): when every worker is done and two
\* workers of one file have both spliced, each reached function of that
\* file has its new body and every other declaration is as in the baseline.
C19_BothBodiesNothingElse ==
    (\A w \in Workers : wpc[w] = "done") =>
        \A v, w \in Workers :
            (v # w /\ pathOf(v) = pathOf(w) /\ outcome[v] = "ok" /\ outcome[w] = "ok") =>
                LET p     == pathOf(v)
                    base  == synBase[p].data.decls
                    final == synDisk[p].data.decls
                IN  /\ Len(final) = Len(base)
                    /\ \A d \in 1..Len(base) :
                          IF d \in reachedDecls(synTargets, p)
                          THEN hasNewBody(final[d])
                          ELSE final[d] = base[d]

\* The workers whose LLM request returned an error.
llmFailed == {w \in Workers : generated[w] = "err"}

\* Every worker has run to its end and the semaphore is empty.
allDone == \A w \in Workers : wpc[w] = "done" /\ outcome[w] # "none"

\* C21: a worker whose LLM request failed has left processSingleTarget
\* without entering the second window, no step of it changes a file, and
\* once it is done its slot is free again; every worker, the workers of the
\* other targets included, runs to its end.
C21_LLMErrorConfined ==
    /\ [](\A w \in llmFailed :
            /\ wpc[w] \in {"returned", "done"}
            /\ outcome[w] = "llm"
            /\ wpc[w] = "done" =>
                  semaphore = Cardinality({v \in Workers :
                                              inProcess(v) \/ wpc[v] = "returned"}))
    /\ [][\A w \in Workers :
            (generated'[w] = "err" /\ wpc'[w] # wpc[w]) => synDisk' = synDisk]_vars
    /\ <>[](allDone /\ semaphore = 0)

\* main line 181: wg.Wait() returns when every worker has called wg.Done().
waitReturns == \A w \in Workers : wpc[w] = "done"

C21_Witness ==
    /\ allDone /\ semaphore = 0
    /\ \E v, w \in Workers :
         /\ v # w /\ pathOf(v) = pathOf(w)
         /\ generated[v] = "err" /\ outcome[v] = "llm"
         /\ outcome[w] = "ok"
         /\ synDisk[pathOf(v)] # synBase[pathOf(v)]

(***************************************************************************)
(* SpecSplice: one pass through the second window of processSingleTarget   *)
(* (lines 828-856) and applyCodeToFile (lines 1102-1143) on the bytes of   *)
(* a file.  A byte is "a" or a blank; offsets count from 0 as in Go.       *)
(***************************************************************************)
SrcBytes == {"a", " "}

\* Line 1117: the braces and the generated body.
finalBody == <<"{", "n", "}">>

\* (mutant) an inverted pair of offsets is let through.
offsetsInRange(startOffset, endOffset, n) ==
    ~(startOffset < 0 \/ endOffset < 0 \/ startOffset > n \/ endOffset > n)

\* Line 1124, negated.
offsetsValid(startOffset, endOffset, n) ==
    ~(\/ startOffset < 0 \/ endOffset < 0
      \/ startOffset > n \/ endOffset > n
      \/ startOffset > endOffset)

\* Lines 1129-1131: src[:startOffset] + finalBody + src[endOffset:].
newSrc(src, startOffset, endOffset) ==
    SubSeq(src, 1, startOffset) \o finalBody \o SubSeq(src, endOffset + 1, Len(src))

\* gofmt -w, as far as the model's bytes go: runs of blanks become one.
RECURSIVE gofmt(_)
gofmt(src) ==
    IF Len(src) < 2 THEN src
    ELSE IF src[1] = " " /\ src[2] = " " THEN gofmt(Tail(src))
    ELSE <<src[1]>> \o gofmt(Tail(src))

\* What the attempt is given: whether the second parse succeeds and finds
\* the function with a body, the offsets of that body, whether the write
\* succeeds.
SpliceInputs ==
    [parseOk : BOOLEAN, found : BOOLEAN, writeOk : BOOLEAN,
     startOffset : (-1)..(MaxSrc + 1), endOffset : (-1)..(MaxSrc + 1)]

\* The bytes on disk and the value returned (FALSE also when
\* applyCodeToFile is not reached).
spliceAttempt(src, in, fmtOk) ==
    IF ~in.parseOk \/ ~in.found THEN [ok |-> FALSE, src |-> src]
    ELSE IF ~offsetsValid(in.startOffset, in.endOffset, Len(src))
    THEN [ok |-> FALSE, src |-> src]
    ELSE IF ~in.writeOk THEN [ok |-> FALSE, src |-> src]
    ELSE [ok |-> TRUE,
          src |-> IF fmtOk THEN gofmt(newSrc(src, in.startOffset, in.endOffset))
                  ELSE newSrc(src, in.startOffset, in.endOffset)]

SpliceInit ==
    /\ spSrc \in SeqsUpTo(SrcBytes, MaxSrc)
    /\ spBefore = spSrc
    /\ spIn \in SpliceInputs
    /\ spDone = FALSE
    /\ spOk = FALSE

SpliceAttempt ==
    /\ ~spDone
    /\ \E fmtOk \in BOOLEAN :
         /\ spSrc' = spliceAttempt(spSrc, spIn, fmtOk).src
         /\ spOk' = spliceAttempt(spSrc, spIn, fmtOk).ok
    /\ spDone' = TRUE
    /\ UNCHANGED <<notSplice, spBefore, spIn>>

SpliceNext == SpliceAttempt

(***************************************************************************)
(* Claims about the splice (SpecSplice).                                   *)
(***************************************************************************)
\* C20: an attempt whose second parse fails or does not find the function,
\* or whose offsets are negative, beyond the length of the file or
\* inverted, returns FALSE and leaves the bytes of the file as they were.
C20_FailedSpliceLeavesFile ==
    (/\ spDone
     /\ \/ ~spIn.parseOk
        \/ ~spIn.found
        \/ spIn.startOffset < 0 \/ spIn.endOffset < 0
        \/ spIn.startOffset > Len(spBefore) \/ spIn.endOffset > Len(spBefore)
        \/ spIn.startOffset > spIn.endOffset)
    => (spSrc = spBefore /\ ~spOk)

\* The function was found and the file could be written, but the offsets,
\* both inside the file, were inverted: the bytes are as before.
C20_Witness ==
    /\ spDone
    /\ spIn.parseOk /\ spIn.found /\ spIn.writeOk
    /\ spIn.endOffset >= 0 /\ spIn.startOffset <= Len(spBefore)
    /\ spIn.startOffset > spIn.endOffset
    /\ spSrc = spBefore /\ Len(spSrc) >= 2

(***************************************************************************)
(* SpecProbe: the runtime library lx.go.  Goroutines of the captured       *)
(* program call Gen, Spy or SpyVoid, once each.  A string is the sequence  *)
(* of its pieces; the write of a line reaches stdout piece by piece.       *)
(***************************************************************************)
Goroutines == 1..NumProbes

\* The environments the program can run in: LX_MODE unset, empty, capture or
\* something else; LX_TRACE_TOKEN unset, empty or a token.
ProbeEnvs ==
    UNION {[S -> {<<>>, <<"capture">>, <<"v">>} \cup Tokens] :
              S \in SUBSET {"LX_MODE", "LX_TRACE_TOKEN"}}

\* os.Getenv: the value, or the empty string for a variable that is not set.
Getenv(env, key) == IF key \in DOMAIN env THEN env[key] ELSE <<>>

\* (mutant) the token is not looked at.
captureModeOnly(env) == Getenv(env, "LX_MODE") = <<"capture">>

\* lx.go lines 26-33, 56-62, 120-126: the probe goes on to sendTrace.
captureOn(env) ==
    /\ Getenv(env, "LX_MODE") = <<"capture">>
    /\ Getenv(env, "LX_TRACE_TOKEN") # <<>>

ProbeCalls ==
    {[probe |-> "Gen", val |-> "p"], [probe |-> "SpyVoid", val |-> "F"]}
        \cup {[probe |-> "Spy", val |-> v] : v \in {"x", "y"}}

\* lx.go line 102: the line sendTrace prints, with its line break.
traceLine(token) == sendTrace(token, <<"{td}">>) \o <<"\n">>

\* The pieces goroutine g has written so far.
writtenBy(g) == SelectSeq(stdout, LAMBDA w : w.by = g)

\* (mutant) the mutex never holds anyone back.
mutexIgnored(holder) == TRUE

\* sync.Mutex: Lock returns when nobody holds the mutex.
mutexFree(holder) == holder = 0

\* What the probe returns (Spy line 57, 61 or 74; Gen and SpyVoid return
\* nothing).
probeResult(call) == IF call.probe = "Spy" THEN call.val ELSE "void"

ProbeInit ==
    /\ probeEnv \in ProbeEnvs
    /\ gpc = [g \in Goroutines |-> "idle"]
    /\ gCall = [g \in Goroutines |-> [probe |-> "none", val |-> ""]]
    /\ gRet = [g \in Goroutines |-> "none"]
    /\ traceMu = 0
    /\ stdout = <<>>

\* Gen lines 25-43, Spy lines 55-64, SpyVoid lines 119-128, sendTrace lines
\* 79-92: outside capture mode the probe returns at once; so it does when
\* the caller cannot be found or the record cannot be marshalled; else it
\* goes on to traceMu.Lock().
ProbeCall ==
    \E g \in Goroutines :
        /\ gpc[g] = "idle"
        /\ \E call \in ProbeCalls, marshalOk \in BOOLEAN :
             /\ gCall' = [gCall EXCEPT ![g] = call]
             /\ IF captureOn(probeEnv) /\ marshalOk
                THEN gpc' = [gpc EXCEPT ![g] = "lock"] /\ gRet' = gRet
                ELSE /\ gpc' = [gpc EXCEPT ![g] = "done"]
                     /\ gRet' = [gRet EXCEPT ![g] = probeResult(call)]
        /\ UNCHANGED <<notProbe, probeEnv, traceMu, stdout>>

\* sendTrace line 98.
ProbeLock ==
    \E g \in Goroutines :
        /\ gpc[g] = "lock"
        /\ mutexFree(traceMu)
        /\ traceMu' = g
        /\ gpc' = [gpc EXCEPT ![g] = "print"]
        /\ UNCHANGED <<notProbe, probeEnv, gCall, gRet, stdout>>

\* sendTrace line 102: the next piece of the line reaches stdout.
ProbeWrite ==
    \E g \in Goroutines :
        /\ gpc[g] = "print"
        /\ LET line == traceLine(Getenv(probeEnv, "LX_TRACE_TOKEN"))
               n    == Len(writtenBy(g))
           IN  /\ n < Len(line)
               /\ stdout' = Append(stdout, [by |-> g, piece |-> line[n + 1]])
        /\ UNCHANGED <<notProbe, probeEnv, gpc, gCall, gRet, traceMu>>

\* sendTrace line 99 (the deferred unlock) and the return of the probe.
ProbeReturn ==
    \E g \in Goroutines :
        /\ gpc[g] = "print"
        /\ Len(writtenBy(g)) = Len(traceLine(Getenv(probeEnv, "LX_TRACE_TOKEN")))
        /\ traceMu' = 0
        /\ gpc' = [gpc EXCEPT ![g] = "done"]
        /\ gRet' = [gRet EXCEPT ![g] = probeResult(gCall[g])]
        /\ UNCHANGED <<notProbe, probeEnv, gCall, stdout>>

\* The pieces the program has written to stdout itself, outside the probes.
ownOutput == SelectSeq(stdout, LAMBDA w : w.by = 0)

\* A goroutine of the program writes to os.Stdout itself: text without a
\* line break, or a line break.  It does not lock traceMu (lx.go line 98 is
\* the only Lock); the write is taken at its most favourable, never inside
\* a line a probe is printing.
OtherWrite ==
    /\ Len(ownOutput) < MaxOther
    /\ \A g \in Goroutines :
          gpc[g] = "print" =>
             Len(writtenBy(g)) \in {0, Len(traceLine(Getenv(probeEnv, "LX_TRACE_TOKEN")))}
    /\ \E piece \in {"text", "\n"} : stdout' = Append(stdout, [by |-> 0, piece |-> piece])
    /\ UNCHANGED <<notProbe, probeEnv, gpc, gCall, gRet, traceMu>>

ProbeNext == ProbeCall \/ ProbeLock \/ ProbeWrite \/ ProbeReturn \/ OtherWrite

(***************************************************************************)
(* Claims about the probes (SpecProbe).                                    *)
(***************************************************************************)
\* The positions of stdout that goroutine g wrote.
positionsOf(g) == {i \in 1..Len(stdout) : stdout[i].by = g}

piecesOf(sq) == [i \in 1..Len(sq) |-> sq[i].piece]

\* C24: the pieces a probe writes lie next to one another in stdout, with no
\* piece of another probe between them, and they are the pieces of one line
\* START<token><json>END<token> and its line break, all of them once the
\* probe has returned.
C24_NoInterleaving ==
    \A g \in Goroutines :
        LET at   == positionsOf(g)
            line == traceLine(Getenv(probeEnv, "LX_TRACE_TOKEN"))
        IN  /\ \A i, j \in at : \A k \in i..j : k \in at
            /\ Cardinality(at) <= Len(line)
            /\ piecesOf(writtenBy(g)) = SubSeq(line, 1, Cardinality(at))
            /\ (gpc[g] = "done" /\ at # {}) => Cardinality(at) = Len(line)

\* Two goroutines have called a probe in capture mode and returned; while
\* the first one was printing, the other one was waiting at the mutex.
C24_Witness ==
    /\ \A g \in Goroutines : gpc[g] = "done" /\ positionsOf(g) # {}
    /\ Len(stdout) - Len(ownOutput)
          = NumProbes * Len(traceLine(Getenv(probeEnv, "LX_TRACE_TOKEN")))
    /\ \E g, h \in Goroutines : gCall[g].probe = "Gen" /\ gCall[h].probe = "Spy"

\* C25: Spy returns the value it was passed, whatever the environment; a
\* probe writes to stdout only when LX_MODE is capture and the token is not
\* empty.
C25_SpyIdentityEmitOnlyInCapture ==
    /\ \A g \in Goroutines :
          (gpc[g] = "done" /\ gCall[g].probe = "Spy") => gRet[g] = gCall[g].val
    /\ (\E i \in 1..Len(stdout) : stdout[i].by \in Goroutines) =>
          /\ "LX_MODE" \in DOMAIN probeEnv /\ probeEnv["LX_MODE"] = <<"capture">>
          /\ "LX_TRACE_TOKEN" \in DOMAIN probeEnv /\ probeEnv["LX_TRACE_TOKEN"] # <<>>

\* LX_MODE is capture and the token is set but empty: Spy and Gen both
\* returned, Spy with its argument, and nothing was written.
C25_Witness ==
    /\ DOMAIN probeEnv = {"LX_MODE", "LX_TRACE_TOKEN"}
    /\ probeEnv["LX_MODE"] = <<"capture">> /\ probeEnv["LX_TRACE_TOKEN"] = <<>>
    /\ \A g \in Goroutines : gpc[g] = "done"
    /\ \E g, h \in Goroutines :
         /\ gCall[g].probe = "Spy" /\ gRet[g] = "y"
         /\ gCall[h].probe = "Gen"
    /\ \A i \in 1..Len(stdout) : stdout[i].by = 0

\* The line of stdout that holds the pieces of probe g, as sc.Text() gives
\* it to the parent (cmd/main.go line 458): what lies between the line
\* break before the first piece and the line break the probe wrote.
lineOfProbe(g) ==
    LET first == CHOOSE i \in positionsOf(g) : \A j \in positionsOf(g) : i <= j
        last  == CHOOSE i \in positionsOf(g) : \A j \in positionsOf(g) : i >= j
        start == CHOOSE i \in 1..first :
                    /\ \A k \in i..(first - 1) : stdout[k].piece # "\n"
                    /\ i = 1 \/ stdout[i - 1].piece = "\n"
    IN  [k \in 1..(last - start) |-> stdout[start + k - 1].piece]

\* C32 (as claimed): the line that holds the record of a probe that has
\* returned is one the parent takes for a trace line (cmd/main.go line 460),
\* whatever else the program wrote to stdout.
C32_EveryRecordDecoded ==
    \A g \in Goroutines :
        (gpc[g] = "done" /\ positionsOf(g) # {}) =>
            framed(lineOfProbe(g), Getenv(probeEnv, "LX_TRACE_TOKEN"))

(***************************************************************************)
(* SpecComment: applyCodeToFile stamps the prompt into the new body as the *)
(* comment // lx-prompt: <prompt> (lines 1116-1120).  A prompt is any      *)
(* string over a slash, a star, a line break, a carriage return, a blank   *)
(* and a letter.                                                           *)
(***************************************************************************)
PromptChars == {"/", "*", "\n", "\r", " ", "a"}

CommentInit ==
    /\ tIn \in SeqsUpTo(PromptChars, MaxPrompt)
    /\ tOut = <<>>
    /\ tDone = FALSE

\* applyCodeToFile line 1116.
SanitizeComment ==
    /\ ~tDone
    /\ tOut' = sanitizeComment(tIn)
    /\ tDone' = TRUE
    /\ UNCHANGED <<notText, tIn>>

CommentNext == SanitizeComment

\* The string str holds the pieces of sub next to one another.
Contains(str, sub) ==
    \E i \in 0..(Len(str) - Len(sub)) : SubSeq(str, i + 1, i + Len(sub)) = sub

\* C39 (as claimed): the text sanitizeComment returns holds no line break,
\* no // and no */, whatever the prompt.
C39_CommentOneLineNoMarkers ==
    tDone =>
        /\ ~Contains(tOut, <<"\n">>)
        /\ ~Contains(tOut, <<"/", "/">>)
        /\ ~Contains(tOut, <<"*", "/">>)

(***************************************************************************)
(* SpecClean: cleanAICode (lines 1066-1100) applied to the reply of the    *)
(* LLM.  A reply is a sequence of pieces: the word func followed by a      *)
(* blank, the word func followed by a parenthesis, a brace, a line break,  *)
(* a blank, a code fence ("fence"), the text lx.Gen( and other code.       *)
(***************************************************************************)
ReplyPieces == {"func ", "func(", "{", "}", "\n", " ", "x", "fence", "lx.Gen("}

\* strings.Index and strings.LastIndex for one piece, counted from 1; 0
\* when the piece is not there.
Index(str, piece) ==
    IF \E i \in 1..Len(str) : str[i] = piece
    THEN CHOOSE i \in 1..Len(str) :
            str[i] = piece /\ \A j \in 1..(i - 1) : str[j] # piece
    ELSE 0

LastIndex(str, piece) ==
    IF \E i \in 1..Len(str) : str[i] = piece
    THEN CHOOSE i \in 1..Len(str) :
            str[i] = piece /\ \A j \in (i + 1)..Len(str) : str[j] # piece
    ELSE 0

\* strings.Split(code, "\n") and strings.Join(lines, "\n").
RECURSIVE Split(_)
Split(str) ==
    IF Index(str, "\n") = 0 THEN <<str>>
    ELSE <<SubSeq(str, 1, Index(str, "\n") - 1)>>
            \o Split(SubSeq(str, Index(str, "\n") + 1, Len(str)))

RECURSIVE Join(_)
Join(lines) ==
    IF lines = <<>> THEN <<>>
    ELSE IF Len(lines) = 1 THEN lines[1]
    ELSE lines[1] \o <<"\n">> \o Join(Tail(lines))

\* Lines 1067-1074: what lies between the first line break after the first
\* code fence and the last code fence after it.
stripFence(code) ==
    LET start == Index(code, "fence")
        rest  == SubSeq(code, start, Len(code))
        nl    == Index(rest, "\n")
        content == SubSeq(rest, nl + 1, Len(rest))
        last  == LastIndex(content, "fence")
    IN  IF start = 0 \/ nl = 0 \/ last = 0 THEN code
        ELSE SubSeq(content, 1, last - 1)

\* Line 1076: the text holds "func " and a brace.
looksWrapped(code) == Index(code, "func ") # 0 /\ Index(code, "{") # 0

\* Line 1079: code[open+1 : close] with close before open is a slice out of
\* range, and the program panics.
slicePanics(code) ==
    /\ looksWrapped(code)
    /\ LastIndex(code, "}") # 0
    /\ LastIndex(code, "}") < Index(code, "{")

\* Lines 1076-1082: what lies between the first { and the last }.
stripFunc(code) ==
    IF looksWrapped(code) /\ LastIndex(code, "}") # 0
    THEN SubSeq(code, Index(code, "{") + 1, LastIndex(code, "}") - 1)
    ELSE code

\* Lines 1084-1087.
stripBraces(code) ==
    LET trimmed == TrimSpace(code)
    IN  IF Len(trimmed) >= 2 /\ Head(trimmed) = "{" /\ trimmed[Len(trimmed)] = "}"
        THEN SubSeq(trimmed, 2, Len(trimmed) - 1)
        ELSE code

\* Lines 1092-1094: the line is blank or holds the marker call.
dropped(line) == TrimSpace(line) = <<>> \/ Index(line, "lx.Gen(") # 0

\* Lines 1089-1099.
keptLines(code) == Join(SelectSeq(Split(code), LAMBDA line : ~dropped(line)))

\* cmd/main.go cleanAICode; a panic is the reply <<"panic">>.
cleanAICode(code) ==
    IF slicePanics(stripFence(code)) THEN <<"panic">>
    ELSE keptLines(stripBraces(stripFunc(stripFence(code))))

CleanInit ==
    /\ tIn \in SeqsUpTo(ReplyPieces, MaxReply)
    /\ tOut = <<>>
    /\ tDone = FALSE

\* processSingleTarget line 822.
CleanReply ==
    /\ ~tDone
    /\ tOut' = cleanAICode(tIn)
    /\ tDone' = TRUE
    /\ UNCHANGED <<notText, tIn>>

CleanNext == CleanReply

\* The braces of str match: none closes before it was opened, none is left
\* open.
RECURSIVE depthAfter(_, _)
depthAfter(str, n) ==
    IF n = 0 THEN 0
    ELSE depthAfter(str, n - 1)
            + (IF str[n] = "{" THEN 1 ELSE IF str[n] = "}" THEN -1 ELSE 0)

balanced(str) ==
    /\ \A n \in 1..Len(str) : depthAfter(str, n) >= 0
    /\ depthAfter(str, Len(str)) = 0

\* The reply is a function body as it stands: no code fence, no marker
\* call, matching braces, and neither a func declaration nor a pair of
\* braces around it.
bareBody(str) ==
    /\ Index(str, "fence") = 0
    /\ Index(str, "lx.Gen(") = 0
    /\ balanced(str)
    /\ TrimSpace(str) # <<>>
    /\ Head(TrimSpace(str)) \notin {"func ", "{"}

\* The reply without its blank lines.
withoutBlankLines(str) ==
    Join(SelectSeq(Split(str), LAMBDA line : TrimSpace(line) # <<>>))

\* C40 (as claimed): cleanAICode returns a reply that is a bare function
\* body without its blank lines and otherwise as it came, also when the
\* body holds a function literal.
C40_BareBodyKept ==
    (tDone /\ bareBody(tIn)) => tOut = withoutBlankLines(tIn)

(***************************************************************************)
(* The specifications.                                                     *)
(***************************************************************************)
InstrIdle == iFile = <<>> /\ iPrev = <<>> /\ iPass = 0

DriverIdle ==
    /\ pc = "off" /\ fatal = "none" /\ disk = <<>> /\ orig = <<>> /\ backups = <<>> /\ walk = 0
    /\ wrote = {} /\ injErrs = {} /\ hpc = "none" /\ hseen = {} /\ hcur = <<>> /\ sigAt = "none"
    /\ exitCode = 0 /\ runErr = "none" /\ traces = <<>> /\ called = {}
    /\ targets = <<>>
    /\ tix = 0 /\ preSynth = <<>> /\ spliced = {}

MergeIdle ==
    mpc = "off" /\ mTree = <<>> /\ allTraces = <<>> /\ mTargets = <<>> /\ mCalls = <<>>
    /\ mSynth = <<>>

ScanIdle == sToken = <<>> /\ sLine = <<>> /\ sTraces = <<>> /\ sRead = 0

EnvIdle == environ = <<>> /\ cmdEnv = <<>> /\ envToken = <<>> /\ started = 0

RunIdle ==
    /\ rpc = "off" /\ entryPoints = 0 /\ dir = 0 /\ deadline = FALSE
    /\ pipe = <<>> /\ emitted = <<>> /\ scanErr = FALSE
    /\ childTraces = <<>> /\ runTraces = <<>> /\ executionErrors = <<>>
    /\ attempted = {} /\ received = <<>> /\ result = <<>>

SynthIdle ==
    /\ synTargets = <<>> /\ synDisk = <<>> /\ synBase = <<>> /\ wpc = <<>>
    /\ semaphore = 0 /\ fileLocks = <<>> /\ generated = <<>> /\ outcome = <<>>

SpliceIdle ==
    /\ spSrc = <<>> /\ spBefore = <<>> /\ spIn = <<>> /\ spDone = FALSE /\ spOk = FALSE

ProbeIdle ==
    /\ probeEnv = <<>> /\ gpc = <<>> /\ gCall = <<>> /\ gRet = <<>>
    /\ traceMu = 0 /\ stdout = <<>>

TextIdle == tIn = <<>> /\ tOut = <<>> /\ tDone = FALSE

InitInstr ==
    InstrInit /\ DriverIdle /\ MergeIdle /\ ScanIdle /\ EnvIdle /\ RunIdle /\ SynthIdle
    /\ SpliceIdle /\ ProbeIdle /\ TextIdle

SpecInstr == InitInstr /\ [][InstrNext]_vars

Init ==
    DriverInit /\ InstrIdle /\ MergeIdle /\ ScanIdle /\ EnvIdle /\ RunIdle /\ SynthIdle
    /\ SpliceIdle /\ ProbeIdle /\ TextIdle

Spec == Init /\ [][DriverNext]_vars

InitMerge ==
    MergeInit /\ InstrIdle /\ DriverIdle /\ ScanIdle /\ EnvIdle /\ RunIdle /\ SynthIdle
    /\ SpliceIdle /\ ProbeIdle /\ TextIdle

SpecMerge == InitMerge /\ [][MergeNext]_vars

InitPrompt ==
    PromptInit /\ InstrIdle /\ DriverIdle /\ ScanIdle /\ EnvIdle /\ RunIdle /\ SynthIdle
    /\ SpliceIdle /\ ProbeIdle /\ TextIdle

SpecPrompt == InitPrompt /\ [][PromptNext]_vars

InitScan ==
    ScanInit /\ InstrIdle /\ DriverIdle /\ MergeIdle /\ EnvIdle /\ RunIdle /\ SynthIdle
    /\ SpliceIdle /\ ProbeIdle /\ TextIdle

SpecScan == InitScan /\ [][ScanNext]_vars

InitEnv ==
    EnvInit /\ InstrIdle /\ DriverIdle /\ MergeIdle /\ ScanIdle /\ RunIdle /\ SynthIdle
    /\ SpliceIdle /\ ProbeIdle /\ TextIdle

SpecEnv == InitEnv /\ [][EnvNext]_vars

InitRun ==
    RunInit /\ InstrIdle /\ DriverIdle /\ MergeIdle /\ ScanIdle /\ EnvIdle /\ SynthIdle
    /\ SpliceIdle /\ ProbeIdle /\ TextIdle

SpecRun == InitRun /\ [][RunNext]_vars

InitSynth ==
    SynthInit /\ InstrIdle /\ DriverIdle /\ MergeIdle /\ ScanIdle /\ EnvIdle /\ RunIdle
    /\ SpliceIdle /\ ProbeIdle /\ TextIdle

SpecSynth == InitSynth /\ [][SynthNext]_vars

\* The Go scheduler runs a goroutine that can take a step, and the request
\* of line 813 ends at the latest with the context of line 810.
SpecSynthLive == SpecSynth /\ WF_vars(SynthNext)

InitSplice ==
    SpliceInit /\ InstrIdle /\ DriverIdle /\ MergeIdle /\ ScanIdle /\ EnvIdle /\ RunIdle
    /\ SynthIdle /\ ProbeIdle /\ TextIdle

SpecSplice == InitSplice /\ [][SpliceNext]_vars

InitProbe ==
    ProbeInit /\ InstrIdle /\ DriverIdle /\ MergeIdle /\ ScanIdle /\ EnvIdle /\ RunIdle
    /\ SynthIdle /\ SpliceIdle /\ TextIdle

SpecProbe == InitProbe /\ [][ProbeNext]_vars

InitComment ==
    CommentInit /\ InstrIdle /\ DriverIdle /\ MergeIdle /\ ScanIdle /\ EnvIdle /\ RunIdle
    /\ SynthIdle /\ SpliceIdle /\ ProbeIdle

SpecComment == InitComment /\ [][CommentNext]_vars

InitClean ==
    CleanInit /\ InstrIdle /\ DriverIdle /\ MergeIdle /\ ScanIdle /\ EnvIdle /\ RunIdle
    /\ SynthIdle /\ SpliceIdle /\ ProbeIdle

SpecClean == InitClean /\ [][CleanNext]_vars

====
